---- MODULE Spec2Model ----
(***************************************************************************)
(* Background orchestrator of the MyVOICE browser extension: the          *)
(* per-profile scrape job (getProfileTopPosts / scrapeProfilePosts /      *)
(* requestPostsFromTab / waitForTabComplete), its caches and job maps,    *)
(* and the cancel message.  One action is one event-loop turn: the event  *)
(* that wakes a coroutine together with the code the coroutine runs up to *)
(* its next await.                                                        *)
(*                                                                         *)
(* Conventions: a JS null is the empty tuple <<>> and a present value v   *)
(* is <<v>>; a JS Map is a function whose DOMAIN is the set of its keys.  *)
(* Scores are kept times 50 so that views * 0.02 stays an integer.        *)
(* Every time (Date.now(), timestamps, delays) is kept in seconds, the    *)
(* source's milliseconds divided by 1000, so that 90 days fit an integer. *)
(***************************************************************************)
EXTENDS Integers, Sequences, FiniteSets, TLC

\* ------------------------------------------------------------- bounds
MaxRequests == 2
MaxNow == 220

\* -------------------------------------------------- program constants
\* 3 * 60 * 1000 ms
TOP_POSTS_CACHE_TTL_MS == 180
\* 35 * 1000 ms
TAB_LOAD_TIMEOUT_MS == 35
PROFILE_TOP_POSTS_WINDOW_DAYS == 90
PROFILE_TOP_POSTS_LIMIT == 10
PROFILE_NEW_POSTS_LIMIT == 5
attempts == 3
\* 24 * 60 * 60 * 1000 ms
DayMs == 86400

\* new Date(0), the time 0 of the source, on the clock of this module
EpochMs == -1700000000

\* ------------------------------------------------------------ helpers
Null == <<>>
Some(v) == <<v>>
IsNull(o) == o = <<>>
Val(o) == o[1]

MapSet(m, k, v) == [x \in DOMAIN m \cup {k} |-> IF x = k THEN v ELSE m[x]]
MapDelete(m, k) == [x \in DOMAIN m \ {k} |-> m[x]]
EmptyMap == [x \in {} |-> 0]

Take(s, n) == IF Len(s) <= n THEN s ELSE SubSeq(s, 1, n)

\* Array.prototype.filter is SelectSeq of Sequences.

\* ------------------------------------------------- profile URL parsing
\* A raw URL string is modelled by what new URL() and cleanText see of it:
\* kind "empty" (cleanText gives ""), "unparsable" (new URL throws) or "url"
\* with the host's labels and the pathname split on "/".
ToLower(s) ==
    CASE s = "IN" -> "in"
      [] s = "Alice" -> "alice"
      [] OTHER -> s

isLinkedInHost(host) ==
    \/ host = <<"linkedin", "com">>
    \/ host = <<"www", "linkedin", "com">>
    \/ /\ Len(host) >= 3
       /\ SubSeq(host, Len(host) - 1, Len(host)) = <<"linkedin", "com">>

NonEmptyPart(p) == p # ""

pathParts(url) == SelectSeq([i \in 1..Len(url.path) |-> ToLower(url.path[i])], NonEmptyPart)

\* mutant: the host is not checked
parseLinkedInProfileAnyHost(url) ==
    IF url.kind # "url" THEN Null
    ELSE LET parts == pathParts(url)
         IN IF Len(parts) < 2 \/ parts[1] # "in" THEN Null
            ELSE Some([slug |-> parts[2],
                       profileKey |-> "in/" \o parts[2],
                       profileUrl |-> [kind |-> "url", host |-> url.host,
                                       path |-> <<"in", parts[2], "">>]])

parseLinkedInProfile(url) ==
    IF url.kind # "url" THEN Null
    ELSE IF ~isLinkedInHost(url.host) THEN Null
    ELSE LET parts == pathParts(url)
         IN IF Len(parts) < 2 \/ parts[1] # "in" THEN Null
            ELSE Some([slug |-> parts[2],
                       profileKey |-> "in/" \o parts[2],
                       profileUrl |-> [kind |-> "url", host |-> url.host,
                                       path |-> <<"in", parts[2], "">>]])

UrlAlice == [kind |-> "url", host |-> <<"www", "linkedin", "com">>, path |-> <<"in", "alice", "">>]
UrlAliceUpper == [kind |-> "url", host |-> <<"linkedin", "com">>, path |-> <<"IN", "Alice">>]
UrlFeed == [kind |-> "url", host |-> <<"www", "linkedin", "com">>, path |-> <<"feed", "">>]
UrlOtherHost == [kind |-> "url", host |-> <<"example", "com">>, path |-> <<"in", "alice">>]
UrlEmpty == [kind |-> "empty", host |-> <<>>, path |-> <<>>]
UrlUnparsable == [kind |-> "unparsable", host |-> <<>>, path |-> <<>>]
UrlInNoSlug == [kind |-> "url", host |-> <<"www", "linkedin", "com">>, path |-> <<"in", "">>]
UrlCompany == [kind |-> "url", host |-> <<"www", "linkedin", "com">>,
               path |-> <<"company", "in", "alice">>]

ProfileUrls == {UrlAlice, UrlAliceUpper}
NonProfileUrls == {UrlFeed, UrlOtherHost, UrlEmpty, UrlUnparsable, UrlInNoSlug, UrlCompany}
Urls == ProfileUrls \cup NonProfileUrls
\* message.profileUrl of the cancel messages: the profile in another spelling than
\* most requests use, and a page that is no profile
CancelUrls == {UrlAliceUpper, UrlFeed}

\* ------------------------------------------------------ posts, scoring
toNumber(value, fallback) == IF IsNull(value) THEN fallback ELSE Val(value)

postDateMs(post) == post.posted_at_ms

\* 50 * (reactions + comments*3 + reposts*2 + views*0.02)
scorePost(post) ==
      50 * toNumber(post.reactions_count, 0)
    + 150 * toNumber(post.comments_count, 0)
    + 100 * toNumber(post.reposts_count, 0)
    + toNumber(post.views_count, 0)

\* the /(\d{8,})/ patterns: a URL of one of the id-carrying shapes yields its id
extractActivityId(url) ==
    IF url.shape \in {"urn:li:activity:", "activity-", "ugcPost-", "urn:li:ugcPost:",
                     "urn:li:share:", "share-"}
    THEN url.id ELSE ""

\* a text that quotes the URN of an activity
TextWithId == "Reposted urn:li:activity:70000001"

\* extractActivityId applied to post.text
textActivityId(text) == IF text = TextWithId THEN "70000001" ELSE ""

\* search and hash are dropped: the query of a URL record, if it has one, is not read
normalizeUrlForKey(url) == IF url.shape = "" THEN "" ELSE url.shape \o url.id

\* cleanText, toLowerCase, whitespace runs collapsed
normalizedSnippet(raw) ==
    CASE raw = "We are  Hiring" -> "we are hiring"
      [] raw = TextWithId -> "reposted urn:li:activity:70000001"
      [] OTHER -> raw

\* toISOString().slice(0, 10) of the post's date: the day it falls on, "" if none
normalizedDay(post) ==
    IF IsNull(postDateMs(post)) THEN Null ELSE Some(Val(postDateMs(post)) \div DayMs)

\* the key is kept as a tuple: <<"txt", day, snippet>> for `txt:${day}|${snippet}`
\* mutant: the URL is looked at before the activity id
postIdentityKeyUrlFirst(post) ==
    IF normalizeUrlForKey(post.post_url) # "" THEN <<"url", normalizeUrlForKey(post.post_url)>>
    ELSE IF textActivityId(post.text) # "" THEN <<"activity", textActivityId(post.text)>>
    ELSE <<"txt", normalizedDay(post), normalizedSnippet(post.text)>>

postIdentityKey(post) ==
    LET activityId == IF extractActivityId(post.post_url) # ""
                      THEN extractActivityId(post.post_url) ELSE textActivityId(post.text)
    IN IF activityId # "" THEN <<"activity", activityId>>
       ELSE IF normalizeUrlForKey(post.post_url) # ""
       THEN <<"url", normalizeUrlForKey(post.post_url)>>
       ELSE <<"txt", normalizedDay(post), normalizedSnippet(post.text)>>

\* candidateDate > existingDate is false as soon as either date is NaN
DateGreater(a, b) == ~IsNull(a) /\ ~IsNull(b) /\ Val(a) > Val(b)

\* mutant: the Map keeps the first record of every key
RECURSIVE dedupeKeepFirst(_, _, _)
dedupeKeepFirst(posts, byKey, order) ==
    IF posts = <<>> THEN [i \in 1..Len(order) |-> byKey[order[i]]]
    ELSE LET key == postIdentityKey(Head(posts))
         IN IF key \in DOMAIN byKey THEN dedupeKeepFirst(Tail(posts), byKey, order)
            ELSE dedupeKeepFirst(Tail(posts), MapSet(byKey, key, Head(posts)),
                                 Append(order, key))

RECURSIVE dedupeInto(_, _, _)
\* byKey is the Map of the loop, order the insertion order of its keys
dedupeInto(posts, byKey, order) ==
    IF posts = <<>> THEN [i \in 1..Len(order) |-> byKey[order[i]]]
    ELSE LET post == Head(posts)
             key == postIdentityKey(post)
         IN IF key \notin DOMAIN byKey
            THEN dedupeInto(Tail(posts), MapSet(byKey, key, post), Append(order, key))
            ELSE LET existing == byKey[key]
                     shouldReplace ==
                         \/ scorePost(post) > scorePost(existing)
                         \/ /\ scorePost(post) = scorePost(existing)
                            /\ DateGreater(postDateMs(post), postDateMs(existing))
                 IN dedupeInto(Tail(posts),
                               IF shouldReplace THEN MapSet(byKey, key, post) ELSE byKey,
                               order)

dedupePosts(posts) == dedupeInto(posts, EmptyMap, <<>>)

resolvePostUrl(post) ==
    LET activityId == IF extractActivityId(post.post_url) # ""
                      THEN extractActivityId(post.post_url) ELSE textActivityId(post.text)
    IN
    IF activityId # ""
    THEN Some("https://www.linkedin.com/feed/update/urn:li:activity:" \o activityId \o "/")
    ELSE IF normalizeUrlForKey(post.post_url) # "" THEN Some(normalizeUrlForKey(post.post_url))
    ELSE Null

\* Math.round(score * 100) / 100 leaves a multiple of 0.02 as it is
mapPostForUi(post, score) ==
    [post_url |-> resolvePostUrl(post),
     content |-> post.text,
     posted_at |-> post.posted_at_ms,
     likes_count |-> post.reactions_count,
     comments_count |-> post.comments_count,
     reposts_count |-> post.reposts_count,
     views_count |-> post.views_count,
     score |-> score]

\* sorter of pickTopPosts: score descending, then postedAtMs descending
TopBefore(a, b) ==
    IF b.score # a.score THEN b.score - a.score < 0
    ELSE b.postedAtMs - a.postedAtMs < 0

DatedBefore(a, b) ==
    IF b.postedAtMs # a.postedAtMs THEN b.postedAtMs - a.postedAtMs < 0
    ELSE b.score - a.score < 0

UndatedBefore(a, b) == b.score - a.score < 0

\* the compare functions handed to Array.prototype.sort, by name
Before(sorter, a, b) ==
    CASE sorter = "top" -> TopBefore(a, b)
      [] sorter = "dated" -> DatedBefore(a, b)
      [] sorter = "undated" -> UndatedBefore(a, b)

RECURSIVE Place(_, _, _)
\* x goes after every element it is not before
Place(sorter, x, t) ==
    IF t = <<>> THEN <<x>>
    ELSE IF Before(sorter, x, t[Len(t)])
         THEN Place(sorter, x, SubSeq(t, 1, Len(t) - 1)) \o <<t[Len(t)]>>
         ELSE t \o <<x>>

RECURSIVE StableSort(_, _)
\* Array.prototype.sort is stable: x moves in front of y only when it is before y
StableSort(s, sorter) ==
    IF s = <<>> THEN <<>>
    ELSE Place(sorter, s[Len(s)], StableSort(SubSeq(s, 1, Len(s) - 1), sorter))

\* mutant: nothing is returned when no post is dated within the window
pickTopPostsWindowOnly(posts, days, topN, nowMs) ==
    LET uniquePosts == dedupePosts(posts)
        inWindow == SelectSeq(uniquePosts, LAMBDA p :
                       ~IsNull(postDateMs(p)) /\ Val(postDateMs(p)) >= nowMs - days * DayMs)
        items == [i \in 1..Len(inWindow) |->
                    [post |-> inWindow[i], score |-> scorePost(inWindow[i]),
                     postedAtMs |-> Val(postDateMs(inWindow[i]))]]
        sorted == Take(StableSort(items, "top"), topN)
    IN [i \in 1..Len(sorted) |-> mapPostForUi(sorted[i].post, sorted[i].score)]

pickTopPosts(posts, days, topN, nowMs) ==
    LET uniquePosts == dedupePosts(posts)
        cutoffMs == nowMs - days * DayMs
        item(p) == [post |-> p, score |-> scorePost(p),
                    postedAtMs |-> IF IsNull(postDateMs(p)) THEN EpochMs ELSE Val(postDateMs(p))]
        InWindow(p) == ~IsNull(postDateMs(p)) /\ Val(postDateMs(p)) >= cutoffMs
        rankedFallback == [i \in 1..Len(uniquePosts) |-> item(uniquePosts[i])]
        rankedInWindow == SelectSeq(rankedFallback, LAMBDA it : InWindow(it.post))
        chosen == IF Len(rankedInWindow) > 0 THEN rankedInWindow ELSE rankedFallback
        sorted == Take(StableSort(chosen, "top"), topN)
    IN [i \in 1..Len(sorted) |-> mapPostForUi(sorted[i].post, sorted[i].score)]

\* mutant: one list, ranked as best_posts is
pickLatestPostsByScore(posts, topN) ==
    LET uniquePosts == dedupePosts(posts)
        items == [i \in 1..Len(uniquePosts) |->
                    [post |-> uniquePosts[i], score |-> scorePost(uniquePosts[i]),
                     postedAtMs |-> IF IsNull(postDateMs(uniquePosts[i])) THEN EpochMs
                                    ELSE Val(postDateMs(uniquePosts[i]))]]
        sorted == Take(StableSort(items, "top"), topN)
    IN [i \in 1..Len(sorted) |-> mapPostForUi(sorted[i].post, sorted[i].score)]

pickLatestPosts(posts, topN) ==
    LET uniquePosts == dedupePosts(posts)
        item(p) == [post |-> p, score |-> scorePost(p),
                    postedAtMs |-> IF IsNull(postDateMs(p)) THEN EpochMs ELSE Val(postDateMs(p))]
        items == [i \in 1..Len(uniquePosts) |-> item(uniquePosts[i])]
        dated == StableSort(SelectSeq(items, LAMBDA it : ~IsNull(postDateMs(it.post))), "dated")
        undated == StableSort(SelectSeq(items, LAMBDA it : IsNull(postDateMs(it.post))), "undated")
        sorted == Take(dated \o undated, topN)
    IN [i \in 1..Len(sorted) |-> mapPostForUi(sorted[i].post, sorted[i].score)]

\* ------------------------------------------------ errors and payloads
SCRAPE_CANCELLED_CODE == "SCRAPE_CANCELLED"
ReceivingEndMsg == "Could not establish connection. Receiving end does not exist."
ChannelClosedMsg == "The message channel closed before a response was received."
NoTabMsg == "No tab with id."
TabClosedMsg == "LinkedIn tab was closed before loading."
LoadTimeoutMsg == "Timed out while loading LinkedIn profile activity page."
OpenFailedMsg == "Failed to open a hidden LinkedIn tab."
ParseFailedMsg == "Failed to parse profile posts from LinkedIn."
ExtractErrorMsg == "Extraction failed in page."

Error(msg) == [code |-> "", message |-> msg]
cancelledError == [code |-> SCRAPE_CANCELLED_CODE, message |-> SCRAPE_CANCELLED_CODE]
isCancelledError(err) ==
    err.code = SCRAPE_CANCELLED_CODE \/ err.message = SCRAPE_CANCELLED_CODE

\* message.includes("Receiving end does not exist")
includesReceivingEnd(msg) == msg = ReceivingEndMsg

Threw(err) == [kind |-> "error", error |-> err, data |-> <<>>]
Returned(data) == [kind |-> "data", error |-> Error(""), data |-> data]
NoOutcome == [kind |-> "none", error |-> Error(""), data |-> <<>>]

\* what the page answers to MYVOICE_EXTRACT_PROFILE_POSTS: data.posts
OldPost == [post_url |-> [shape |-> "urn:li:activity:", id |-> "70000001"], text |-> "old",
            posted_at_ms |-> Some(-8000000), reactions_count |-> Some(4),
            comments_count |-> Null, reposts_count |-> Null, views_count |-> Null]
RecentPost == [post_url |-> [shape |-> "activity-", id |-> "70000002"], text |-> "recent",
               posted_at_ms |-> Some(-1), reactions_count |-> Some(1),
               comments_count |-> Some(1), reposts_count |-> Null, views_count |-> Some(10)]
UndatedPost == [post_url |-> [shape |-> "", id |-> ""], text |-> "undated",
                posted_at_ms |-> Null, reactions_count |-> Null,
                comments_count |-> Null, reposts_count |-> Null, views_count |-> Null]
ExtractedPosts == {<<>>, <<OldPost>>, <<UndatedPost, RecentPost>>}

NotProfileResult == [person |-> Null, posts |-> <<>>, reason |-> Some("not_profile_page")]

CancelledResult ==
    [person |-> Null, posts |-> <<>>, best_posts |-> <<>>, new_posts |-> <<>>,
     reason |-> Some("cancelled"), source |-> "linkedin_recent_activity"]

\* responsePayload of the run, built at time nowMs from the extracted posts
responsePayload(profile, parsedPosts, nowMs) ==
    LET top == pickTopPosts(parsedPosts, PROFILE_TOP_POSTS_WINDOW_DAYS,
                            PROFILE_TOP_POSTS_LIMIT, nowMs)
        latest == pickLatestPosts(parsedPosts, PROFILE_NEW_POSTS_LIMIT)
    IN [person |-> Some([nickname |-> profile.slug, linkedin_url |-> profile.profileUrl]),
        posts |-> top,
        best_posts |-> top,
        new_posts |-> latest,
        reason |-> IF Len(top) > 0 THEN Null ELSE Some("no_posts_in_period"),
        source |-> "linkedin_recent_activity"]

\* ---------------------------------------------------------------- state
VARIABLES
    now,               \* Date.now()
    topPostsCache,     \* Map profileKey -> [updatedAt, payload]
    topPostsInflight,  \* Map profileKey -> the run (its promise)
    topPostsJobs,      \* Map profileKey -> the run whose job object is registered
    runs,              \* Map run id -> a run coroutine in flight and its job object
    tabs,              \* the browser's tabs: Map tab id -> "loading" or "complete"
    requests,          \* Map request id -> a MYVOICE_GET_PROFILE_TOP_POSTS awaiting its run
    issued,            \* how many such messages have arrived
    lastTurn,          \* what the latest event-loop turn did, for the properties
    calls,             \* Map request id -> a message of another type awaiting its promise
    page,              \* the content script's extraction in the scraped page
    calc,              \* a helper function's argument and the value it returned
    assist,            \* the content script's comment assist and the feed it is mounted in
    panel,             \* the content script's profile panel and its requests
    people,            \* the background's people and authors caches and their requests
    popup              \* the popup's scan and add runs

vars == <<now, topPostsCache, topPostsInflight, topPostsJobs, runs, tabs, requests, issued,
          lastTurn, calls, page, calc, assist, panel, people, popup>>

\* what no step of the scrape job touches
aside == <<calls, page, calc, assist, panel, people, popup>>

\* the document: its first `loaded` articles are in the DOM, the counters of the
\* articles in `counted` have rendered, body.scrollHeight is `height`
EmptyDom == [loaded |-> 0, counted |-> {}, height |-> 0]

NoPage == [pc |-> "none", dom |-> EmptyDom, maxPosts |-> 0, maxScrollSteps |-> 0,
           expectedProfileKey |-> "", step |-> 0, stableScrollSteps |-> 0, beforeCount |-> 0,
           prevHeight |-> 0, byKey |-> <<>>, response |-> Null,
           passes |-> 0, quiet |-> <<>>, captured |-> {}]
NoCalc == [fn |-> "none", arg |-> "none", input |-> <<>>, output |-> <<>>]

\* ------------------------------------------------------- comment assist
\* a post container of the feed: the post it shows, whether the node is attached
\* to the document, whether its comment box (with the editor in it) is open
Container(post, box) == [post |-> post, connected |-> TRUE, box |-> box]

\* let commentAssistState = {...}: nothing generated, no author loaded
InitialCommentAssistState ==
    [postKey |-> "", generating |-> FALSE, variants |-> Null, activeVariant |-> "",
     authors |-> <<>>, authorsLoaded |-> FALSE, authorsLoading |-> FALSE, authorsError |-> "",
     selectedAuthorKey |-> "", statusText |-> "", statusKind |-> ""]

\* commentAssistTargetArticle, ...CommentBox (nodes, 0 for null), ...ActivityId, ...UpdatedAt
NoTarget == [article |-> 0, box |-> 0, activityId |-> "", updatedAt |-> 0]

\* how the latest step ended, and the editor (its container) and the text of the
\* write it made into a comment editor, for the properties
NoStep == [note |-> "", editor |-> 0, text |-> ""]

\* the content script after it has loaded into a feed that shows two posts
NoAssist ==
    [clock |-> 0,
     state |-> InitialCommentAssistState,
     commentAssistRequestId |-> 0,
     commentAssistAuthorsRequestId |-> 0,
     ticker |-> 0,
     target |-> NoTarget,
     dom |-> <<Container("7001", FALSE), Container("7002", FALSE)>>,
     stored |-> "",
     mounted |-> FALSE,
     gens |-> {},
     loads |-> {},
     lastSent |-> 0,
     step |-> NoStep]

\* what the profile panel shows in its body, and for which request
NothingRendered == [kind |-> "", id |-> 0, key |-> ""]

\* the content script after it has loaded into a profile page: the first refresh
\* is scheduled, nothing is rendered yet
NoPanel ==
    [href |-> UrlAlice,
     profilePanelLastUrl |-> UrlAlice,
     profilePanelCollapsed |-> FALSE,
     profilePanelRequestId |-> 0,
     profilePanelRefreshTimer |-> TRUE,
     pending |-> {},
     cancels |-> <<>>,
     panelNode |-> "absent",
     launcherShown |-> FALSE,
     body |-> NothingRendered,
     note |-> ""]

NoPeople ==
    [clock |-> 0,
     setupAuthorsCacheUpdatedAt |-> 0, setupAuthorsCacheData |-> Null,
     setupAuthorsCacheInflight |-> 0, setupLoads |-> {}, setupStarted |-> 0, setupOk |-> {},
     peopleCacheUpdatedAt |-> 0, peopleCacheData |-> Null,
     peopleCacheInflight |-> 0, peopleLoads |-> {}, peopleStarted |-> 0,
     backend |-> <<>>, waiting |-> {}, creates |-> {}, asked |-> 0, answers |-> {},
     note |-> ""]

ZeroStats ==
    [totalContacts |-> 0, scannableContacts |-> 0, checkedContacts |-> 0, contactsWithNew |-> 0,
     foundPosts |-> 0, skippedNoLinkedIn |-> 0, errors |-> 0]

\* the popup's module state; scans and adds hold the runs of runScan and of
\* addAllPendingPosts that are suspended at an await, with their locals; conflicts
\* (the keys a probe of the current scan answered 409 for) and lastAdd (how the last
\* run of addAllPendingPosts ended) only record what happened
NoPopup ==
    [allPeople |-> <<>>, pendingPosts |-> <<>>, scanning |-> FALSE, adding |-> FALSE,
     hasScanned |-> FALSE, localDedupeKeysByPerson |-> EmptyMap, scanStats |-> ZeroStats,
     loginShown |-> FALSE, status |-> "", scans |-> {}, adds |-> {}, started |-> 0,
     conflicts |-> {},
     lastAdd |-> [exit |-> "none", before |-> <<>>, creations |-> <<>>, added |-> 0,
                  skippedDuplicates |-> 0, preSkipped |-> 0],
     note |-> ""]

NoWait == [settled |-> FALSE, timer |-> FALSE, deadline |-> 0, onUpdated |-> FALSE,
           onRemoved |-> FALSE, getPending |-> FALSE, calls |-> 0]

Quiet == [kind |-> "none", req |-> 0, run |-> 0, started |-> FALSE, liveBefore |-> {},
          cachedBefore |-> Null, snapshot |-> Null, replies |-> {}, tabGone |-> FALSE]

Init ==
    /\ now = 0
    /\ topPostsCache = EmptyMap
    /\ topPostsInflight = EmptyMap
    /\ topPostsJobs = EmptyMap
    /\ runs = EmptyMap
    /\ tabs = EmptyMap
    /\ requests = EmptyMap
    /\ issued = 0
    /\ lastTurn = Quiet
    /\ calls = EmptyMap
    /\ page = NoPage
    /\ calc = NoCalc
    /\ assist = NoAssist
    /\ panel = NoPanel
    /\ people = NoPeople
    /\ popup = NoPopup

TabIds == DOMAIN tabs
RunIds == DOMAIN runs
TabOpen(t) == t \in DOMAIN tabs

\* ------------------------------------------------- waitForTabComplete
\* new Promise(...): timer set, both listeners added, chrome.tabs.get asked
newWait(nowMs) ==
    [settled |-> FALSE, timer |-> TRUE, deadline |-> nowMs + TAB_LOAD_TIMEOUT_MS,
     onUpdated |-> TRUE, onRemoved |-> TRUE, getPending |-> TRUE, calls |-> 0]

\* mutant: cleanup clears the timer and leaves the listeners registered
cleanupKeepsListeners(w) == [w EXCEPT !.timer = FALSE]

cleanup(w) == [w EXCEPT !.timer = FALSE, !.onUpdated = FALSE, !.onRemoved = FALSE]

\* the part of done()/fail() past the settled guard: cleanup, then resolve/reject
settle(w) == [cleanup(w) EXCEPT !.settled = TRUE, !.calls = w.calls + 1]

\* ------------------------------------------------- scrapeProfilePosts
\* mutant: a finally block that forgets safeCloseTab
scrapeFinallyWithoutClose(run, outcome) ==
    [run EXCEPT !.job.tabId = 0, !.pc = "closing", !.pending = outcome, !.caught = ""]

\* the finally block: job.tabId = null; await safeCloseTab(tabId)
scrapeFinally(run, outcome) ==
    [run EXCEPT !.job.tabId = 0, !.pc = "closing", !.pending = outcome,
                !.caught = "", !.closeCalled = TRUE]

\* mutant: the first cancelled check sits before the try, outside the finally
afterCreateCheckBeforeTry(run, nowMs) ==
    LET r1 == [run EXCEPT !.job.tabId = run.tabId]
    IN IF r1.job.cancelled
       THEN [r1 EXCEPT !.pc = "closing", !.pending = Threw(cancelledError)]
       ELSE [r1 EXCEPT !.pc = "waitLoad", !.wait = newWait(nowMs), !.waits = @ + 1]

\* chrome.tabs.create has resolved with a usable tab: job.tabId = tabId; try { ...
afterCreate(run, nowMs) ==
    LET r1 == [run EXCEPT !.job.tabId = run.tabId]
    IN IF r1.job.cancelled THEN scrapeFinally(r1, Threw(cancelledError))
       ELSE [r1 EXCEPT !.pc = "waitLoad", !.wait = newWait(nowMs), !.waits = @ + 1]

\* the awaited waitForTabComplete resolved
afterWaitResolved(run) ==
    IF run.pc = "waitLoad"
    THEN IF run.job.cancelled THEN scrapeFinally(run, Threw(cancelledError))
         ELSE [run EXCEPT !.pc = "sleep1"]
    ELSE [run EXCEPT !.pc = "sleep2"]

\* done() of waitForTabComplete and what the awaiting coroutine does next
done(run) ==
    IF run.wait.settled THEN run
    ELSE afterWaitResolved([run EXCEPT !.wait = settle(run.wait)])

\* fail(error): the rejection leaves requestPostsFromTab / the try block
fail(run, err) ==
    IF run.wait.settled THEN run
    ELSE scrapeFinally([run EXCEPT !.wait = settle(run.wait)], Threw(err))

\* chrome.tabs.sendMessage is called for the next attempt
sendAttempt(run) == [run EXCEPT !.pc = "sending", !.attempt = run.attempt + 1, !.caught = ""]

\* sleep(1400) / sleep(1200) is over
afterSleep(run) ==
    IF run.pc = "sleep1"
    THEN IF run.job.cancelled THEN scrapeFinally(run, Threw(cancelledError))
         ELSE sendAttempt(run)
    ELSE sendAttempt(run)

\* mutant: any rejection is retried
canRetryAnyMessage(attempt, message) == attempt < attempts

canRetry(attempt, message) == attempt < attempts /\ includesReceivingEnd(message)

\* sendMessage rejected with err: the catch block of requestPostsFromTab, which
\* stays open (message in scope) over the reload, the wait and the sleep
afterSendRejected(run, err) ==
    IF ~canRetry(run.attempt, err.message) THEN scrapeFinally(run, Threw(err))
    ELSE [run EXCEPT !.pc = "reloading", !.caught = err.message, !.reloads = @ + 1]

\* sendMessage resolved with response: the rest of the try block
afterSendResolved(run, response) ==
    IF IsNull(response) \/ ~Val(response).ok \/ IsNull(Val(response).data)
    THEN scrapeFinally(run,
            Threw(Error(IF ~IsNull(response) /\ Val(response).error # ""
                        THEN Val(response).error ELSE ParseFailedMsg)))
    ELSE IF run.job.cancelled THEN scrapeFinally(run, Threw(cancelledError))
    ELSE scrapeFinally(run, Returned(Val(Val(response).data)))

\* chrome.tabs.reload settled
afterReload(run, ok, nowMs) ==
    IF ok THEN [run EXCEPT !.pc = "waitReload", !.wait = newWait(nowMs), !.waits = @ + 1]
    ELSE scrapeFinally(run, Threw(Error(NoTabMsg)))

\* ------------------------------------------------- getProfileTopPosts
\* mutant: an entry exactly TTL old still counts as fresh
CacheFreshInclusive(entry, nowMs) == nowMs - entry.updatedAt <= TOP_POSTS_CACHE_TTL_MS

CacheFresh(entry, nowMs) == nowMs - entry.updatedAt < TOP_POSTS_CACHE_TTL_MS

\* mutant: the in-flight map is never consulted
InflightNeverHas(key) == FALSE

InflightHas(key) == key \in DOMAIN topPostsInflight

OkResponse(payload) == [ok |-> TRUE, data |-> Some(payload), error |-> ""]
ErrResponse(msg) == [ok |-> FALSE, data |-> Null, error |-> msg]

\* what the run resolves or rejects with, given how scrapeProfilePosts ended
runResult(run, outcome, nowMs) ==
    IF outcome.kind = "data"
    THEN OkResponse(responsePayload(run.profile, outcome.data.posts, nowMs))
    ELSE IF isCancelledError(outcome.error)
    THEN IF ~IsNull(run.cached) THEN OkResponse(Val(run.cached).payload)
         ELSE OkResponse(CancelledResult)
    ELSE ErrResponse(outcome.error.message)

\* only the success path reaches topPostsCache.set
cacheAfterRun(cache, run, outcome, nowMs) ==
    IF outcome.kind = "data"
    THEN MapSet(cache, run.key,
                [updatedAt |-> nowMs,
                 payload |-> responsePayload(run.profile, outcome.data.posts, nowMs)])
    ELSE cache

Awaiting(r) == {q \in DOMAIN requests : requests[q].awaiting = r}

\* mutant: the caller's finally does not delete the in-flight entry
runSettlesKeepsInflight(r, run, outcome) ==
    LET result == runResult(run, outcome, now)
    IN /\ topPostsCache' = cacheAfterRun(topPostsCache, run, outcome, now)
       /\ topPostsJobs' = MapDelete(topPostsJobs, run.key)
       /\ topPostsInflight' = topPostsInflight
       /\ requests' = [q \in DOMAIN requests \ Awaiting(r) |-> requests[q]]
       /\ runs' = MapDelete(runs, r)
       /\ lastTurn' = [Quiet EXCEPT !.kind = "settled", !.run = r,
                         !.cachedBefore = IF run.key \in DOMAIN topPostsCache
                                          THEN Some(topPostsCache[run.key]) ELSE Null,
                         !.snapshot = Some([run EXCEPT !.pending = outcome]),
                         !.replies = {[to |-> q, response |-> result] : q \in Awaiting(r)},
                         !.tabGone = ~TabOpen(run.tabId)]

\* The run's promise settles: cache write, finally topPostsJobs.delete, then the
\* first caller's finally topPostsInflight.delete, then every awaiting caller's
\* sendResponse, all in the microtasks of one turn.
runSettles(r, run, outcome) ==
    LET result == runResult(run, outcome, now)
    IN /\ topPostsCache' = cacheAfterRun(topPostsCache, run, outcome, now)
       /\ topPostsJobs' = MapDelete(topPostsJobs, run.key)
       /\ topPostsInflight' = MapDelete(topPostsInflight, run.key)
       /\ requests' = [q \in DOMAIN requests \ Awaiting(r) |-> requests[q]]
       /\ runs' = MapDelete(runs, r)
       /\ lastTurn' = [Quiet EXCEPT !.kind = "settled", !.run = r,
                         !.cachedBefore = IF run.key \in DOMAIN topPostsCache
                                          THEN Some(topPostsCache[run.key]) ELSE Null,
                         !.snapshot = Some([run EXCEPT !.pending = outcome]),
                         !.replies = {[to |-> q, response |-> result] : q \in Awaiting(r)},
                         !.tabGone = ~TabOpen(run.tabId)]

newRun(profile, cached, tabId) ==
    [key |-> profile.profileKey, profile |-> profile, cached |-> cached,
     job |-> [cancelled |-> FALSE, tabId |-> 0],
     pc |-> "creating", tabId |-> tabId, attempt |-> 0, reloads |-> 0, waits |-> 0,
     wait |-> NoWait,
     caught |-> "", pending |-> NoOutcome, closeCalled |-> FALSE, cancelClose |-> FALSE]

LiveFor(key) == {r \in RunIds : runs[r].key = key}

\* onMessage MYVOICE_GET_PROFILE_TOP_POSTS: getProfileTopPosts up to its first await.
\* created says whether chrome.tabs.create is going to give a usable tab.
GetTopPosts(url, created) ==
    /\ UNCHANGED aside
    /\ issued < MaxRequests
    /\ issued' = issued + 1
    /\ LET q == issued + 1
           parsed == parseLinkedInProfile(url)
       IN IF IsNull(parsed)
          THEN /\ lastTurn' = [Quiet EXCEPT !.kind = "get", !.req = q,
                                 !.replies = {[to |-> q, response |-> OkResponse(NotProfileResult)]}]
               /\ UNCHANGED <<now, topPostsCache, topPostsInflight, topPostsJobs, runs, tabs,
                              requests>>
          ELSE LET profile == Val(parsed)
                   key == profile.profileKey
                   cached == IF key \in DOMAIN topPostsCache THEN Some(topPostsCache[key]) ELSE Null
                   seen == [Quiet EXCEPT !.kind = "get", !.req = q, !.cachedBefore = cached,
                                         !.liveBefore = LiveFor(key)]
               IN IF ~IsNull(cached) /\ CacheFresh(Val(cached), now)
                  THEN /\ lastTurn' = [seen EXCEPT !.replies =
                                         {[to |-> q, response |-> OkResponse(Val(cached).payload)]}]
                       /\ UNCHANGED <<now, topPostsCache, topPostsInflight, topPostsJobs, runs,
                                      tabs, requests>>
                  ELSE IF InflightHas(key)
                  THEN /\ requests' = MapSet(requests, q, [key |-> key,
                                                           awaiting |-> topPostsInflight[key]])
                       /\ lastTurn' = [seen EXCEPT !.run = topPostsInflight[key]]
                       /\ UNCHANGED <<now, topPostsCache, topPostsInflight, topPostsJobs, runs,
                                      tabs>>
                  ELSE /\ requests' = MapSet(requests, q, [key |-> key, awaiting |-> q])
                       /\ tabs' = IF created THEN MapSet(tabs, q, "loading") ELSE tabs
                       /\ runs' = MapSet(runs, q, newRun(profile, cached, IF created THEN q ELSE 0))
                       /\ topPostsJobs' = MapSet(topPostsJobs, key, q)
                       /\ topPostsInflight' = MapSet(topPostsInflight, key, q)
                       /\ lastTurn' = [seen EXCEPT !.run = q, !.started = TRUE]
                       /\ UNCHANGED <<now, topPostsCache>>

\* onMessage MYVOICE_CANCEL_PROFILE_TOP_POSTS: the job of the profile, if there is
\* one, is marked and its tab closed; sendResponse({ ok: true }) in every case.
\* Cancel messages are not numbered: the reply is addressed to 0.
Cancel(url) ==
    /\ UNCHANGED aside
    /\ LET parsed == parseLinkedInProfile(url)
       IN IF ~IsNull(parsed) /\ Val(parsed).profileKey \in DOMAIN topPostsJobs
          THEN LET r == topPostsJobs[Val(parsed).profileKey]
                   job == runs[r].job
               IN runs' = [runs EXCEPT ![r].job.cancelled = TRUE,
                                       ![r].cancelClose = @ \/ job.tabId > 0]
          ELSE runs' = runs
    /\ lastTurn' = [Quiet EXCEPT !.kind = "cancel",
                                 !.replies = {[to |-> 0, response |-> [ok |-> TRUE]]}]
    /\ UNCHANGED <<now, topPostsCache, topPostsInflight, topPostsJobs, tabs, requests, issued>>

\* ------------------------------------------- the other message types
MessageTypes == {"MYVOICE_CHECK_PROFILE_PERSON", "MYVOICE_ADD_PROFILE_PERSON",
                 "MYVOICE_OPEN_LINKEDIN_POST", "MYVOICE_GET_SETUP_AUTHORS",
                 "MYVOICE_GENERATE_COMMENT_VARIANTS"}

\* message.url of MYVOICE_OPEN_LINKEDIN_POST, by what isLinkedInUrl looks at
PostUrlInputs ==
    {[http |-> h, linkedin |-> l, marker |-> m] :
        h \in BOOLEAN, l \in BOOLEAN, m \in {"/feed/update/", "/posts/", "activity-", ""}}

isLinkedInUrl(url) ==
    IF ~url.http THEN FALSE
    ELSE IF ~url.linkedin THEN FALSE
    ELSE url.marker \in {"/feed/update/", "/posts/", "activity-"}

\* a value thrown that is not an Error: String(err || "Unknown error") reads it
Thrown(text) == [code |-> "", thrown |-> text]

\* err instanceof Error ? err.message : String(err || "Unknown error")
errorMessage(err) ==
    IF "message" \in DOMAIN err THEN err.message
    ELSE IF err.thrown = "" THEN "Unknown error" ELSE err.thrown

\* how the promise a handler waits for can settle
CallOutcomes(type) ==
    CASE type = "MYVOICE_CHECK_PROFILE_PERSON" ->
            {Returned([exists |-> e]) : e \in BOOLEAN}
            \cup {Threw(Error("Request failed (HTTP 500)"))}
      [] type = "MYVOICE_ADD_PROFILE_PERSON" ->
            {Returned([added |-> a]) : a \in BOOLEAN}
            \cup {Threw(Error("Profile full name is required.")), Threw(Thrown(""))}
      [] type = "MYVOICE_OPEN_LINKEDIN_POST" ->
            {Returned([opened |-> TRUE]), Threw(Error(NoTabMsg)), Threw(Thrown("tab error"))}
      [] type = "MYVOICE_GET_SETUP_AUTHORS" ->
            {Returned([authors |-> a]) : a \in {<<>>, <<"Ann">>}}
            \cup {Threw(Error("Request failed (HTTP 401)"))}
      [] type = "MYVOICE_GENERATE_COMMENT_VARIANTS" ->
            {Returned([variants |-> "v", draftId |-> d]) : d \in {Null, Some(7)}}
            \cup {Threw(Error("Post text is empty.")),
                  Threw(Error("No comment variants were returned."))}

\* the .then callback of each handler: the object given to sendResponse
successResponse(type, result) ==
    CASE type = "MYVOICE_CHECK_PROFILE_PERSON" -> [ok |-> TRUE, exists |-> result.exists]
      [] type = "MYVOICE_ADD_PROFILE_PERSON" -> [ok |-> TRUE, added |-> result.added]
      [] type = "MYVOICE_OPEN_LINKEDIN_POST" -> [ok |-> TRUE]
      [] type = "MYVOICE_GET_SETUP_AUTHORS" -> [ok |-> TRUE, authors |-> result.authors]
      [] type = "MYVOICE_GENERATE_COMMENT_VARIANTS" ->
            [ok |-> TRUE, variants |-> result.variants, draftId |-> result.draftId]

\* the .catch callback of each handler
failureResponse(err) == [ok |-> FALSE, error |-> errorMessage(err)]

\* mutant: one handler ends without `return true`
listenerReturnOmitted(type) == type # "MYVOICE_GENERATE_COMMENT_VARIANTS"

\* what the listener returns once it has started an asynchronous answer: true,
\* which keeps the channel to the sender open until sendResponse is called
listenerReturn(type) == TRUE

\* onMessage for one of the other types, up to the listener's return
OtherMessage(type, url) ==
    /\ issued < MaxRequests
    /\ issued' = issued + 1
    /\ LET q == issued + 1
       IN IF type = "MYVOICE_OPEN_LINKEDIN_POST" /\ ~isLinkedInUrl(url)
          THEN /\ calls' = calls
               /\ lastTurn' = [Quiet EXCEPT !.kind = "message", !.req = q,
                                 !.replies = {[to |-> q, response |->
                                     [ok |-> FALSE, error |-> "Invalid LinkedIn post URL."]]}]
          ELSE /\ calls' = MapSet(calls, q, [type |-> type, open |-> listenerReturn(type)])
               /\ lastTurn' = [Quiet EXCEPT !.kind = "message", !.req = q]
    /\ UNCHANGED <<now, topPostsCache, topPostsInflight, topPostsJobs, runs, tabs, requests,
                   page, calc, assist, panel, people, popup>>

\* the promise of such a message settles: sendResponse from .then or .catch, which
\* reaches the sender only over a channel that was kept open
CallSettled(q, outcome) ==
    /\ q \in DOMAIN calls
    /\ outcome \in CallOutcomes(calls[q].type)
    /\ LET response == IF outcome.kind = "data"
                       THEN successResponse(calls[q].type, outcome.data)
                       ELSE failureResponse(outcome.error)
       IN lastTurn' = [Quiet EXCEPT !.kind = "call", !.req = q,
                         !.replies = IF calls[q].open THEN {[to |-> q, response |-> response]}
                                     ELSE {}]
    /\ calls' = MapDelete(calls, q)
    /\ UNCHANGED <<now, topPostsCache, topPostsInflight, topPostsJobs, runs, tabs, requests,
                   issued, page, calc, assist, panel, people, popup>>

\* chrome.tabs.create settles
CreateSettled(r) ==
    /\ UNCHANGED aside
    /\ r \in RunIds /\ runs[r].pc = "creating"
    /\ IF runs[r].tabId = 0
       THEN /\ runSettles(r, runs[r], Threw(Error(OpenFailedMsg)))
            /\ UNCHANGED <<now, tabs, issued>>
       ELSE /\ runs' = MapSet(runs, r, afterCreate(runs[r], now))
            /\ lastTurn' = Quiet
            /\ UNCHANGED <<now, topPostsCache, topPostsInflight, topPostsJobs, tabs, requests,
                           issued>>

\* the tab finishes loading: chrome.tabs.onUpdated fires with status "complete"
TabComplete(t) ==
    /\ UNCHANGED aside
    /\ t \in TabIds /\ tabs[t] = "loading"
    /\ tabs' = [tabs EXCEPT ![t] = "complete"]
    /\ runs' = [r \in RunIds |->
                  IF runs[r].tabId = t /\ runs[r].wait.onUpdated THEN done(runs[r]) ELSE runs[r]]
    /\ lastTurn' = Quiet
    /\ UNCHANGED <<now, topPostsCache, topPostsInflight, topPostsJobs, requests, issued>>

\* the tab goes away (the user closes it, or a chrome.tabs.remove takes effect):
\* chrome.tabs.onRemoved fires
TabRemoved(t) ==
    /\ UNCHANGED aside
    /\ t \in TabIds
    /\ tabs' = MapDelete(tabs, t)
    /\ runs' = [r \in RunIds |->
                  IF runs[r].tabId = t /\ runs[r].wait.onRemoved
                  THEN fail(runs[r], Error(TabClosedMsg)) ELSE runs[r]]
    /\ lastTurn' = Quiet
    /\ UNCHANGED <<now, topPostsCache, topPostsInflight, topPostsJobs, requests, issued>>

\* chrome.tabs.get(tabId) settles: .then(done if complete) / .catch(fail)
TabGetSettled(r) ==
    /\ UNCHANGED aside
    /\ r \in RunIds /\ runs[r].wait.getPending
    /\ LET run == [runs[r] EXCEPT !.wait.getPending = FALSE]
       IN runs' = MapSet(runs, r,
                    IF ~TabOpen(run.tabId) THEN fail(run, Error(NoTabMsg))
                    ELSE IF tabs[run.tabId] = "complete" THEN done(run)
                    ELSE run)
    /\ lastTurn' = Quiet
    /\ UNCHANGED <<now, topPostsCache, topPostsInflight, topPostsJobs, tabs, requests, issued>>

\* the setTimeout of waitForTabComplete fires
LoadTimeout(r) ==
    /\ UNCHANGED aside
    /\ r \in RunIds /\ runs[r].wait.timer
    /\ now >= runs[r].wait.deadline
    /\ runs' = MapSet(runs, r, fail([runs[r] EXCEPT !.wait.timer = FALSE], Error(LoadTimeoutMsg)))
    /\ lastTurn' = Quiet
    /\ UNCHANGED <<now, topPostsCache, topPostsInflight, topPostsJobs, tabs, requests, issued>>

\* sleep(1400) after the load, sleep(1200) after a reload
SleepDone(r) ==
    /\ UNCHANGED aside
    /\ r \in RunIds /\ runs[r].pc \in {"sleep1", "sleep2"}
    /\ runs' = MapSet(runs, r, afterSleep(runs[r]))
    /\ lastTurn' = Quiet
    /\ UNCHANGED <<now, topPostsCache, topPostsInflight, topPostsJobs, tabs, requests, issued>>

PageResponses ==
    {Some([ok |-> TRUE, data |-> Some([posts |-> p]), error |-> ""]) : p \in ExtractedPosts}
    \cup {Some([ok |-> FALSE, data |-> Null, error |-> ExtractErrorMsg]), Null}

\* chrome.tabs.sendMessage resolves with the page's response
SendResolved(r, response) ==
    /\ UNCHANGED aside
    /\ r \in RunIds /\ runs[r].pc = "sending"
    /\ TabOpen(runs[r].tabId)
    /\ runs' = MapSet(runs, r, afterSendResolved(runs[r], response))
    /\ lastTurn' = Quiet
    /\ UNCHANGED <<now, topPostsCache, topPostsInflight, topPostsJobs, tabs, requests, issued>>

\* chrome.tabs.sendMessage rejects: no content script yet, or the channel broke
SendRejected(r, msg) ==
    /\ UNCHANGED aside
    /\ r \in RunIds /\ runs[r].pc = "sending"
    /\ runs' = MapSet(runs, r, afterSendRejected(runs[r], Error(msg)))
    /\ lastTurn' = Quiet
    /\ UNCHANGED <<now, topPostsCache, topPostsInflight, topPostsJobs, tabs, requests, issued>>

\* chrome.tabs.reload settles: the tab loads again, or there is no such tab
ReloadSettled(r) ==
    /\ UNCHANGED aside
    /\ r \in RunIds /\ runs[r].pc = "reloading"
    /\ LET open == TabOpen(runs[r].tabId)
       IN /\ runs' = MapSet(runs, r, afterReload(runs[r], open, now))
          /\ tabs' = IF open THEN [tabs EXCEPT ![runs[r].tabId] = "loading"] ELSE tabs
    /\ lastTurn' = Quiet
    /\ UNCHANGED <<now, topPostsCache, topPostsInflight, topPostsJobs, requests, issued>>

\* the chrome.tabs.remove of safeCloseTab settles (the tab is gone, or was already)
\* and the finally block is left
CloseSettled(r) ==
    /\ UNCHANGED aside
    /\ r \in RunIds /\ runs[r].pc = "closing"
    /\ runs[r].closeCalled => ~TabOpen(runs[r].tabId)
    /\ runSettles(r, runs[r], runs[r].pending)
    /\ UNCHANGED <<now, tabs, issued>>

\* Time passes, up to the next instant at which something can change: a load
\* timer falling due, or a cache entry about to reach or reaching its TTL.
ArmedDeadlines == {runs[r].wait.deadline : r \in {x \in RunIds : runs[x].wait.timer}}
Instants ==
    ArmedDeadlines
    \cup {topPostsCache[k].updatedAt + TOP_POSTS_CACHE_TTL_MS - 1 : k \in DOMAIN topPostsCache}
    \cup {topPostsCache[k].updatedAt + TOP_POSTS_CACHE_TTL_MS : k \in DOMAIN topPostsCache}

Tick(t) ==
    /\ UNCHANGED aside
    /\ t \in Instants /\ t > now /\ t <= MaxNow
    /\ \A d \in ArmedDeadlines : t <= d
    /\ now' = t
    /\ lastTurn' = Quiet
    /\ UNCHANGED <<topPostsCache, topPostsInflight, topPostsJobs, runs, tabs, requests, issued>>

Next ==
    \/ \E url \in Urls, created \in BOOLEAN : GetTopPosts(url, created)
    \/ \E url \in CancelUrls : Cancel(url)
    \/ \E r \in RunIds : CreateSettled(r)
    \/ \E t \in TabIds : TabComplete(t)
    \/ \E t \in TabIds : TabRemoved(t)
    \/ \E r \in RunIds : TabGetSettled(r)
    \/ \E r \in RunIds : LoadTimeout(r)
    \/ \E r \in RunIds : SleepDone(r)
    \/ \E r \in RunIds, response \in PageResponses : SendResolved(r, response)
    \/ \E r \in RunIds, msg \in {ReceivingEndMsg, ChannelClosedMsg} : SendRejected(r, msg)
    \/ \E r \in RunIds : ReloadSettled(r)
    \/ \E r \in RunIds : CloseSettled(r)
    \/ \E t \in Instants : Tick(t)

Spec == Init /\ [][Next]_vars

\* The listener with all its message types. The scrape job runs here with a tab
\* that opens and a page that answers at the first request, and the clock stands
\* still; the other handlers share nothing with it but the event loop.
MessageNext ==
    \/ \E url \in {UrlAlice, UrlFeed} : GetTopPosts(url, TRUE)
    \/ \E url \in CancelUrls : Cancel(url)
    \/ \E r \in RunIds : CreateSettled(r)
    \/ \E t \in TabIds : TabComplete(t)
    \/ \E t \in TabIds : TabRemoved(t)
    \/ \E r \in RunIds : TabGetSettled(r)
    \/ \E r \in RunIds : SleepDone(r)
    \/ \E r \in RunIds, response \in PageResponses : SendResolved(r, response)
    \/ \E r \in RunIds : CloseSettled(r)
    \/ \E type \in MessageTypes, url \in PostUrlInputs : OtherMessage(type, url)
    \/ \E q \in DOMAIN calls, outcome \in UNION {CallOutcomes(t) : t \in MessageTypes} :
          CallSettled(q, outcome)

MessageSpec == Init /\ [][MessageNext]_vars

\* ------------------------------------- content script: profile posts
\* bounds of the document
MaxArticles == 13
MaxHeight == 18

Digits == <<"0", "1", "2", "3", "4", "5", "6", "7", "8", "9">>
ActivityIdOf(i) == "700000" \o Digits[(i \div 10) + 1] \o Digits[(i % 10) + 1]

\* extractPostFromArticle of the i-th article of the feed. Articles 5 and 6 carry
\* no link and no id and read alike; every fourth one is a repost of someone
\* else's; article 3 shows no date; counters render late on article 1.
Article(i, counted) ==
    [post_url |-> IF i \in {5, 6} THEN [shape |-> "", id |-> ""]
                  ELSE [shape |-> "urn:li:activity:", id |-> ActivityIdOf(i)],
     text |-> IF i \in {5, 6} THEN "hiring" ELSE "post",
     author_profile_key |-> IF i % 4 = 0 THEN "in/bob" ELSE "in/alice",
     posted_at_ms |-> IF i = 3 THEN Null ELSE IF i \in {5, 6} THEN Some(-5 * DayMs)
                      ELSE Some(-i * DayMs),
     reactions_count |-> IF i \in counted THEN Some(5) ELSE Null,
     comments_count |-> IF i \in counted THEN Some(i) ELSE Null,
     reposts_count |-> Null,
     views_count |-> Null]

\* document.querySelectorAll("article, [role='article']") mapped through
\* extractPostFromArticle
articlesOf(dom) == [i \in 1..dom.loaded |-> Article(i, dom.counted)]

extractActivityIdFromText(url) ==
    IF url.shape \in {"urn:li:activity:", "activity-", "ugcPost-", "urn:li:ugcPost:",
                     "urn:li:share:", "share-"}
    THEN url.id ELSE ""

normalizeLinkedInPostUrl(url) == IF url.shape = "" THEN "" ELSE url.shape \o url.id

postDedupeKey(post) ==
    IF extractActivityIdFromText(post.post_url) # ""
    THEN <<"activity", extractActivityIdFromText(post.post_url)>>
    ELSE IF normalizeLinkedInPostUrl(post.post_url) # ""
    THEN <<"url", normalizeLinkedInPostUrl(post.post_url)>>
    ELSE <<"txt", normalizedDay(post), post.text>>

postBelongsToProfile(post, expectedProfileKey) ==
    expectedProfileKey # "" /\ post.author_profile_key = expectedProfileKey

\* Math.min(hi, Math.max(lo, Number(option) || fallback))
clampOption(option, lo, hi, fallback) ==
    LET n == IF IsNull(option) \/ Val(option) = 0 THEN fallback ELSE Val(option)
        m == IF n < lo THEN lo ELSE n
    IN IF m > hi THEN hi ELSE m

\* byKey is kept as the sequence of its values in insertion order
byKeyHas(byKey, key) == \E i \in 1..Len(byKey) : postDedupeKey(byKey[i]) = key

\* mutant: a later capture of a known key replaces the stored one
collectLastWins(byKey, articles) ==
    LET last(key) == CHOOSE j \in 1..Len(articles) :
                        /\ postDedupeKey(articles[j]) = key
                        /\ \A i \in (j + 1)..Len(articles) : postDedupeKey(articles[i]) # key
        kept == [i \in 1..Len(byKey) |->
                   IF \E j \in 1..Len(articles) :
                         postDedupeKey(articles[j]) = postDedupeKey(byKey[i])
                   THEN articles[last(postDedupeKey(byKey[i]))] ELSE byKey[i]]
        fresh == SelectSeq(articles, LAMBDA post : ~byKeyHas(byKey, postDedupeKey(post)))
        first == SelectSeq([j \in 1..Len(fresh) |->
                              IF \E i \in 1..(j - 1) :
                                    postDedupeKey(fresh[i]) = postDedupeKey(fresh[j])
                              THEN Null ELSE Some(fresh[j])],
                           LAMBDA x : ~IsNull(x))
    IN kept \o [j \in 1..Len(first) |-> Val(first[j])]

\* the inner loop, if (!byKey.has(key)) byKey.set(key, post): the map keeps what it
\* has and takes, in document order, the first article of every key it lacks
collect(byKey, articles) ==
    LET fresh == SelectSeq(articles, LAMBDA post : ~byKeyHas(byKey, postDedupeKey(post)))
        first == SelectSeq([j \in 1..Len(fresh) |->
                              IF \E i \in 1..(j - 1) :
                                    postDedupeKey(fresh[i]) = postDedupeKey(fresh[j])
                              THEN Null ELSE Some(fresh[j])],
                           LAMBDA x : ~IsNull(x))
    IN byKey \o [j \in 1..Len(first) |-> Val(first[j])]

\* what a pass has seen: the key and the score of every article it has read
capturesOf(articles) ==
    {<<postDedupeKey(articles[j]), scorePost(articles[j])>> : j \in 1..Len(articles)}

\* the sort of the result: new Date(posted_at_iso || 0), latest first
extractedBefore(a, b) ==
    LET at == IF IsNull(a.posted_at_ms) THEN EpochMs ELSE Val(a.posted_at_ms)
        bt == IF IsNull(b.posted_at_ms) THEN EpochMs ELSE Val(b.posted_at_ms)
    IN bt - at < 0

\* posts.sort(...): a stable sort, each record placed after those that come
\* before it and after the earlier ones it ties with
sortExtracted(posts) ==
    LET rank(i) == Cardinality({j \in 1..Len(posts) :
                       \/ extractedBefore(posts[j], posts[i])
                       \/ ~extractedBefore(posts[i], posts[j]) /\ j < i})
    IN [k \in 1..Len(posts) |-> posts[CHOOSE i \in 1..Len(posts) : rank(i) = k - 1]]

\* after the loop: the profile's own posts if there are 3 of them, sorted, cut
finishExtraction(p, why) ==
    LET allPosts == p.byKey
        matchingPosts == SelectSeq(allPosts,
                            LAMBDA post : postBelongsToProfile(post, p.expectedProfileKey))
        posts == IF Len(matchingPosts) >= 3 THEN matchingPosts ELSE allPosts
    IN [p EXCEPT !.pc = why,
                 !.response = Some([ok |-> TRUE,
                                    data |-> Some([posts |-> Take(sortExtracted(posts),
                                                                  p.maxPosts)]),
                                    error |-> ""])]

\* one pass of the loop body up to its await: collect, cap check, scroll, sleep
scrollPass(p) ==
    LET articles == articlesOf(p.dom)
        p1 == [p EXCEPT !.beforeCount = Len(p.byKey),
                        !.captured = @ \cup capturesOf(articles),
                        !.byKey = collect(p.byKey, articles),
                        !.passes = @ + 1]
    IN IF Len(p1.byKey) >= p1.maxPosts THEN finishExtraction(p1, "cap")
       ELSE [p1 EXCEPT !.pc = "sleeping", !.prevHeight = p.dom.height]

\* for (...; step < maxScrollSteps; step += 1)
nextStep(p) ==
    IF p.step + 1 < p.maxScrollSteps THEN scrollPass([p EXCEPT !.step = @ + 1])
    ELSE finishExtraction([p EXCEPT !.step = @ + 1], "steps")

\* mutant: the stall counter is never reset
afterScrollNoReset(p) ==
    LET grew == p.dom.height > p.prevHeight + 8
        still == ~grew /\ Len(p.byKey) = p.beforeCount
        p1 == [p EXCEPT !.quiet = Take(<<still>> \o @, 2)]
    IN IF still
       THEN IF p.stableScrollSteps + 1 >= 2
            THEN finishExtraction([p1 EXCEPT !.stableScrollSteps = @ + 1], "stall")
            ELSE nextStep([p1 EXCEPT !.stableScrollSteps = @ + 1])
       ELSE nextStep(p1)

\* sleep(scrollDelayMs) is over: the rest of the loop body, then the next pass.
\* quiet remembers, latest first, whether each of the last two scroll attempts
\* brought neither growth nor a new key.
afterScroll(p) ==
    LET grew == p.dom.height > p.prevHeight + 8
        still == ~grew /\ Len(p.byKey) = p.beforeCount
        p1 == [p EXCEPT !.quiet = Take(<<still>> \o @, 2)]
    IN IF still
       THEN IF p.stableScrollSteps + 1 >= 2
            THEN finishExtraction([p1 EXCEPT !.stableScrollSteps = @ + 1], "stall")
            ELSE nextStep([p1 EXCEPT !.stableScrollSteps = @ + 1])
       ELSE nextStep([p1 EXCEPT !.stableScrollSteps = 0])

\* message.maxPosts and message.maxScrollSteps; null is a missing or non-numeric one
ExtractOptions ==
    {[maxPosts |-> Null, maxScrollSteps |-> Null],
     [maxPosts |-> Some(0), maxScrollSteps |-> Some(0)],
     [maxPosts |-> Some(-5), maxScrollSteps |-> Some(1)],
     [maxPosts |-> Some(11), maxScrollSteps |-> Some(50)],
     [maxPosts |-> Some(500), maxScrollSteps |-> Some(4)]}

Running == page.pc \in {"sleeping"}
Finished == page.pc \in {"cap", "stall", "steps"}

scrapeVars == <<now, topPostsCache, topPostsInflight, topPostsJobs, runs, tabs, requests,
                issued, lastTurn>>

\* the page loads a further batch of k articles of the feed, or its body grows by
\* delta, or both
PageGrows(k, delta) ==
    /\ ~Finished
    /\ k + delta > 0
    /\ page.dom.loaded + k <= MaxArticles
    /\ page.dom.height + delta <= MaxHeight
    /\ page' = [page EXCEPT !.dom.loaded = @ + k, !.dom.height = @ + delta]
    /\ UNCHANGED <<scrapeVars, calls, calc, assist, panel, people, popup>>

\* the counters of an article in the DOM render
CountersRender(i) ==
    /\ ~Finished
    /\ i \in 1..page.dom.loaded /\ i \notin page.dom.counted
    /\ page' = [page EXCEPT !.dom.counted = @ \cup {i}]
    /\ UNCHANGED <<scrapeVars, calls, calc, assist, panel, people, popup>>

\* onMessage MYVOICE_EXTRACT_PROFILE_POSTS: extractProfilePostsFromCurrentPage up
\* to its first await
ExtractStart(options) ==
    /\ page.pc = "none"
    /\ page' = scrollPass([page EXCEPT
                   !.maxPosts = clampOption(options.maxPosts, 10, 120, 40),
                   !.maxScrollSteps = clampOption(options.maxScrollSteps, 3, 18, 10),
                   !.expectedProfileKey = "in/alice"])
    /\ UNCHANGED <<scrapeVars, calls, calc, assist, panel, people, popup>>

\* the timer of sleep(scrollDelayMs) fires
ScrollSettled ==
    /\ page.pc = "sleeping"
    /\ page' = afterScroll(page)
    /\ UNCHANGED <<scrapeVars, calls, calc, assist, panel, people, popup>>

ExtractNext ==
    \/ \E k \in {0, 4}, delta \in {0, 8, 9} : PageGrows(k, delta)
    \/ CountersRender(1)
    \/ \E options \in ExtractOptions : ExtractStart(options)
    \/ ScrollSettled

ExtractSpec == Init /\ [][ExtractNext]_vars

\* timers of the page fire: a pending sleep(scrollDelayMs) always ends. This is
\* WF_vars(ScrollSettled) written out, ScrollSettled being enabled exactly while
\* page.pc = "sleeping".
ExtractFairSpec ==
    ExtractSpec /\ ([]<>(page.pc # "sleeping") \/ []<><<ScrollSettled>>_vars)

\* ------------------------------------------- the helpers, one call each
\* longest list of posts handed to a helper, the feeds apart
MaxPosts == 3

Post(shape, id, text, date, reactions, comments) ==
    [post_url |-> [shape |-> shape, id |-> id], text |-> text, posted_at_ms |-> date,
     reactions_count |-> reactions, comments_count |-> comments,
     reposts_count |-> Null, views_count |-> Null]

\* Captures of a few posts. The first five are one activity under five URL shapes
\* with different counters and dates, the sixth quotes it in its text; the others
\* carry no id: two URLs that differ by their query, four texts with no link.
CalcPosts ==
    {Post("urn:li:activity:", "70000001", "a", Some(-2 * DayMs), Some(1), Null),
     Post("activity-", "70000001", "b", Some(-1 * DayMs), Some(1), Null),
     Post("share-", "70000001", "a", Some(-2 * DayMs), Some(3), Some(1)),
     Post("ugcPost-", "70000001", "a", Null, Some(1), Null),
     Post("urn:li:share:", "70000002", "a", Some(-100 * DayMs), Some(9), Null),
     Post("/posts/x", "", TextWithId, Some(-3 * DayMs), Null, Null),
     Post("/posts/y", "", "c", Some(-100 * DayMs), Some(2), Null),
     [Post("/posts/y", "", "d", Some(-101 * DayMs), Some(2), Null)
         EXCEPT !.post_url = [shape |-> "/posts/y", id |-> "", query |-> "?utm=1"]],
     Post("", "", "We are  Hiring", Some(-95 * DayMs), Null, Some(1)),
     Post("", "", "we are hiring", Some(-95 * DayMs + 60), Null, Null),
     Post("", "", "we are hiring", Some(-96 * DayMs), Some(1), Null),
     Post("", "", "we are hiring", Null, Some(2), Null)}

RECURSIVE SeqsUpTo(_, _)
SeqsUpTo(S, n) ==
    IF n = 0 THEN {<<>>}
    ELSE LET shorter == SeqsUpTo(S, n - 1)
         IN shorter \cup {Append(t, x) : t \in shorter, x \in S}

\* a whole feed as the page returns it, from article r on and around
Feed(r) ==
    LET all == articlesOf([loaded |-> MaxArticles, counted |-> {1}, height |-> 0])
    IN SubSeq(all, r, MaxArticles) \o SubSeq(all, 1, r - 1)

PostLists == SeqsUpTo(CalcPosts, MaxPosts) \cup {Feed(r) : r \in 1..MaxArticles}

\* ------------------------------------------------ texts, character-wise
\* A text is the sequence of its characters, each a string: an ASCII character is
\* itself, a Cyrillic letter is "cyr:" and its transliteration.
Chars(string) == [i \in 1..Len(string) |-> SubSeq(string, i, i)]
Cyr(letters) == [i \in 1..Len(letters) |-> "cyr:" \o SubSeq(letters, i, i)]

DigitChars == "0123456789"
LowerChars == "abcdefghijklmnopqrstuvwxyz"
UpperChars == "ABCDEFGHIJKLMNOPQRSTUVWXYZ"

\* \d, \s and \w of a regular expression without the u flag
IsDigit(c) == \E i \in 1..10 : SubSeq(DigitChars, i, i) = c
IsSpace(c) == c = " "
IsWordChar(c) ==
    \/ IsDigit(c) \/ c = "_"
    \/ \E i \in 1..26 : c \in {SubSeq(LowerChars, i, i), SubSeq(UpperChars, i, i)}

DigitValue(c) == (CHOOSE i \in 1..10 : SubSeq(DigitChars, i, i) = c) - 1

\* toLowerCase, and the folding of the i flag
LowerChar(c) ==
    IF \E i \in 1..26 : SubSeq(UpperChars, i, i) = c
    THEN LET i == CHOOSE i \in 1..26 : SubSeq(UpperChars, i, i) = c
         IN SubSeq(LowerChars, i, i)
    ELSE c

\* String(value || "").replace(/\s+/g, " ").trim()
cleanText(text) ==
    LET kept == SelectSeq([i \in 1..Len(text) |->
                             IF IsSpace(text[i]) /\ (i = 1 \/ IsSpace(text[i - 1]))
                             THEN "" ELSE text[i]],
                          LAMBDA c : c # "")
    IN IF kept # <<>> /\ IsSpace(kept[Len(kept)]) THEN SubSeq(kept, 1, Len(kept) - 1)
       ELSE kept

Count(text, c) == Cardinality({i \in 1..Len(text) : text[i] = c})
Without(text, c) == SelectSeq(text, LAMBDA x : x # c)
\* 0 if there is none
IndexOf(text, c) ==
    IF Count(text, c) = 0 THEN 0 ELSE CHOOSE i \in 1..Len(text) :
        text[i] = c /\ \A j \in 1..(i - 1) : text[j] # c
LastIndexOf(text, c) ==
    IF Count(text, c) = 0 THEN 0 ELSE CHOOSE i \in 1..Len(text) :
        text[i] = c /\ \A j \in (i + 1)..Len(text) : text[j] # c
\* String.prototype.replace with a string pattern: the first occurrence only
ReplaceFirst(text, c, by) ==
    [i \in 1..Len(text) |-> IF i = IndexOf(text, c) THEN by ELSE text[i]]

RECURSIVE DigitsValue(_)
DigitsValue(digits) ==
    IF digits = <<>> THEN 0
    ELSE 10 * DigitsValue(SubSeq(digits, 1, Len(digits) - 1)) + DigitValue(digits[Len(digits)])

RECURSIVE Pow10(_)
Pow10(d) == IF d = 0 THEN 1 ELSE 10 * Pow10(d - 1)

\* Number(body) of a body of digits, dots and commas that begins with a digit, as
\* the fraction num / den; null is NaN
NumberOf(body) ==
    IF Count(body, ",") > 0 \/ Count(body, ".") > 1 THEN Null
    ELSE LET dot == IndexOf(body, ".")
             whole == IF dot = 0 THEN body ELSE SubSeq(body, 1, dot - 1)
             decimals == IF dot = 0 THEN <<>> ELSE SubSeq(body, dot + 1, Len(body))
         IN Some([num |-> DigitsValue(whole) * Pow10(Len(decimals)) + DigitsValue(decimals),
                  den |-> Pow10(Len(decimals))])

\* Math.round(n * factor): halves go up
RoundTimes(n, factor) == (2 * n.num * factor + n.den) \div (2 * n.den)

\* the separators of the body resolved to at most one decimal dot
resolveSeparators(body) ==
    LET commaCount == Count(body, ",")
        dotCount == Count(body, ".")
    IN IF commaCount > 0 /\ dotCount > 0
       THEN LET decimalSep == IF LastIndexOf(body, ",") > LastIndexOf(body, ".")
                              THEN "," ELSE "."
                thousandsSep == IF decimalSep = "," THEN "." ELSE ","
                stripped == Without(body, thousandsSep)
            IN IF decimalSep = "," THEN ReplaceFirst(stripped, ",", ".") ELSE stripped
       ELSE IF commaCount > 0
       THEN IF commaCount > 1 THEN Without(body, ",")
            ELSE IF Len(body) - IndexOf(body, ",") = 3 THEN Without(body, ",")
            ELSE ReplaceFirst(body, ",", ".")
       ELSE IF dotCount > 1
       THEN LET last == LastIndexOf(body, ".")
            IN IF Len(body) - last = 3 THEN Without(body, ".")
               ELSE Without(SubSeq(body, 1, last - 1), ".") \o <<".">>
                    \o SubSeq(body, last + 1, Len(body))
       ELSE body

\* the match of /(\d[\d\s.,]*)(?:\s*([k cyr:k m cyr:m]))?/i starts at the first
\* digit, its first group runs on through digits, spaces, dots and commas, and
\* the suffix is the character after it if it is one of the four letters
parseNumberToken(raw) ==
    LET text == cleanText(raw)
        digitsAt == {i \in 1..Len(text) : IsDigit(text[i])}
    IN IF digitsAt = {} THEN Null
       ELSE LET start == CHOOSE i \in digitsAt : \A j \in digitsAt : i <= j
                stop == CHOOSE j \in start..Len(text) :
                           /\ \A k \in (start + 1)..j :
                                 IsDigit(text[k]) \/ IsSpace(text[k]) \/ text[k] \in {".", ","}
                           /\ j < Len(text) =>
                                 ~(IsDigit(text[j + 1]) \/ IsSpace(text[j + 1])
                                   \/ text[j + 1] \in {".", ","})
                suffix == IF stop < Len(text) /\ LowerChar(text[stop + 1])
                                                  \in {"k", "cyr:k", "m", "cyr:m"}
                          THEN LowerChar(text[stop + 1]) ELSE ""
                n == NumberOf(resolveSeparators(Without(SubSeq(text, start, stop), " ")))
            IN IF IsNull(n) THEN Null
               ELSE IF suffix \in {"k", "cyr:k"} THEN Some(RoundTimes(Val(n), 1000))
               ELSE IF suffix \in {"m", "cyr:m"} THEN Some(RoundTimes(Val(n), 1000000))
               ELSE Some(RoundTimes(Val(n), 1))

\* longest text of the enumerated ones
MaxTokenLen == 4

\* node.textContent of a counter: the texts the notes name, a few more, and every
\* short text over a small alphabet
NumberTokens ==
    {Chars("1,234"), Chars("1.234,5"), Chars("2.5K"), Chars("3 ") \o Cyr("tys") \o <<".">>,
     Chars("3") \o Cyr("k"), Chars("1.5M"), Chars("12 comments"), Chars("  7  "),
     Chars("1,234,567"), Chars("1.234.567"), Chars("1.234"), Chars("no reactions")}
    \cup SeqsUpTo({"1", "5", ",", ".", " ", "K", "x"}, MaxTokenLen)

MinuteMs == 60
HourMs == 3600

\* the alternatives of the unit group in the order of the pattern, each with its
\* entry of offsets
Units ==
    <<[unit |-> Chars("m"), step |-> MinuteMs],
      [unit |-> Chars("min"), step |-> MinuteMs],
      [unit |-> Chars("mins"), step |-> MinuteMs],
      [unit |-> Chars("minute"), step |-> MinuteMs],
      [unit |-> Chars("minutes"), step |-> MinuteMs],
      [unit |-> Chars("h"), step |-> HourMs],
      [unit |-> Chars("hr"), step |-> HourMs],
      [unit |-> Chars("hrs"), step |-> HourMs],
      [unit |-> Chars("hour"), step |-> HourMs],
      [unit |-> Chars("hours"), step |-> HourMs],
      [unit |-> Chars("d"), step |-> DayMs],
      [unit |-> Chars("day"), step |-> DayMs],
      [unit |-> Chars("days"), step |-> DayMs],
      [unit |-> Chars("w"), step |-> 7 * DayMs],
      [unit |-> Chars("wk"), step |-> 7 * DayMs],
      [unit |-> Chars("wks"), step |-> 7 * DayMs],
      [unit |-> Chars("week"), step |-> 7 * DayMs],
      [unit |-> Chars("weeks"), step |-> 7 * DayMs],
      [unit |-> Chars("mo"), step |-> 30 * DayMs],
      [unit |-> Chars("mos"), step |-> 30 * DayMs],
      [unit |-> Chars("month"), step |-> 30 * DayMs],
      [unit |-> Chars("months"), step |-> 30 * DayMs],
      [unit |-> Chars("y"), step |-> 365 * DayMs],
      [unit |-> Chars("yr"), step |-> 365 * DayMs],
      [unit |-> Chars("yrs"), step |-> 365 * DayMs],
      [unit |-> Chars("year"), step |-> 365 * DayMs],
      [unit |-> Chars("years"), step |-> 365 * DayMs],
      [unit |-> Cyr("min"), step |-> MinuteMs],
      [unit |-> Cyr("minuta"), step |-> MinuteMs],
      [unit |-> Cyr("minut"), step |-> MinuteMs],
      [unit |-> Cyr("c"), step |-> HourMs],
      [unit |-> Cyr("cas"), step |-> HourMs],
      [unit |-> Cyr("casa"), step |-> HourMs],
      [unit |-> Cyr("casov"), step |-> HourMs],
      [unit |-> Cyr("dn"), step |-> DayMs],
      [unit |-> Cyr("d"), step |-> DayMs],
      [unit |-> Cyr("denx"), step |-> DayMs],
      [unit |-> Cyr("dnq"), step |-> DayMs],
      [unit |-> Cyr("dnej"), step |-> DayMs],
      [unit |-> Cyr("ned"), step |-> 7 * DayMs],
      [unit |-> Cyr("nedelq"), step |-> 7 * DayMs],
      [unit |-> Cyr("nedeli"), step |-> 7 * DayMs],
      [unit |-> Cyr("nedelx"), step |-> 7 * DayMs],
      [unit |-> Cyr("mes"), step |-> 30 * DayMs],
      [unit |-> Cyr("mesqz"), step |-> 30 * DayMs],
      [unit |-> Cyr("mesqza"), step |-> 30 * DayMs],
      [unit |-> Cyr("mesqzev"), step |-> 30 * DayMs],
      [unit |-> Cyr("g"), step |-> 365 * DayMs],
      [unit |-> Cyr("god"), step |-> 365 * DayMs],
      [unit |-> Cyr("goda"), step |-> 365 * DayMs],
      [unit |-> Cyr("let"), step |-> 365 * DayMs]>>

\* \b after position pos of the text: a word character on one side only
BoundaryAfter(text, pos) ==
    IsWordChar(text[pos]) # (pos < Len(text) /\ IsWordChar(text[pos + 1]))

\* the alternatives that match at position k and end on a \b
unitsAt(text, k) ==
    {u \in 1..Len(Units) :
        LET unit == Units[u].unit
        IN /\ k + Len(unit) - 1 <= Len(text)
           /\ \A i \in 1..Len(unit) : LowerChar(text[k + i - 1]) = unit[i]
           /\ BoundaryAfter(text, k + Len(unit) - 1)}

\* the matches of /(\d+)\s*(unit)\b/i by the position they start at: the digits
\* from there on, the spaces after them, then a unit
matchAt(text, i) ==
    LET stop == CHOOSE j \in i..Len(text) :
                   /\ \A k \in i..j : IsDigit(text[k])
                   /\ j < Len(text) => ~IsDigit(text[j + 1])
        k == CHOOSE k \in (stop + 1)..(Len(text) + 1) :
                /\ \A x \in (stop + 1)..(k - 1) : IsSpace(text[x])
                /\ k <= Len(text) => ~IsSpace(text[k])
        found == IF k <= Len(text) THEN unitsAt(text, k) ELSE {}
    IN IF found = {} THEN Null
       ELSE Some([n |-> DigitsValue(SubSeq(text, i, stop)),
                  step |-> Units[CHOOSE u \in found : \A v \in found : u <= v].step])

\* a date that a lenient Date parser makes of a text with a number in it
LegacyDateMs == -800000000

\* new Date(value).getTime(): what the parser makes of a text that is no ISO date is
\* left to the implementation. A text with an ASCII letter after a digit, or with no
\* digit, is no date; of any other text a lenient parser may make one.
DirectOutcomes(value) ==
    IF \/ \A i \in 1..Len(value) : ~IsDigit(value[i])
       \/ \E i, j \in 1..Len(value) :
             i < j /\ IsDigit(value[i]) /\ IsWordChar(value[j]) /\ ~IsDigit(value[j])
    THEN {Null}
    ELSE {Null, Some(LegacyDateMs)}

\* direct is the outcome of new Date(value), a time or null for an invalid date
parsePublishedIso(raw, direct, nowMs) ==
    LET value == cleanText(raw)
        starts == {i \in 1..Len(value) : IsDigit(value[i]) /\ ~IsNull(matchAt(value, i))}
    IN IF value = <<>> THEN Null
       ELSE IF ~IsNull(direct) THEN direct
       ELSE IF starts = {} THEN Null
       ELSE LET m == Val(matchAt(value, CHOOSE i \in starts : \A j \in starts : i <= j))
            IN IF m.n <= 0 THEN Null ELSE Some(nowMs - m.n * m.step)

\* the text of the time element of a post: the texts the notes name, a few more,
\* and every short text over a small alphabet
TimeTokens ==
    {Chars("3h"), Chars("2 ") \o Cyr("nedeli"), Chars("1 year"),
     Chars("3 ") \o Cyr("mes") \o <<".">>, Chars("2 weeks ago"), Chars("10H"),
     Chars("0 days"), Chars("5 parsecs"), Cyr("nedavno"), Chars("3 months"), Chars("1mo"),
     Chars("7") \o Cyr("c") \o Chars("x"), Chars("Edited 4 d")}
    \cup SeqsUpTo({"0", "3", " ", "h", "d", "x", "cyr:c"}, MaxTokenLen)

\* the argument of the one call of a behaviour
Given(arg, input) == calc = [NoCalc EXCEPT !.arg = arg, !.input = input]

Called(fn, output) == [calc EXCEPT !.fn = fn, !.output = output]

CalcInit ==
    /\ now = 0
    /\ topPostsCache = EmptyMap
    /\ topPostsInflight = EmptyMap
    /\ topPostsJobs = EmptyMap
    /\ runs = EmptyMap
    /\ tabs = EmptyMap
    /\ requests = EmptyMap
    /\ issued = 0
    /\ lastTurn = Quiet
    /\ calls = EmptyMap
    /\ page = NoPage
    /\ assist = NoAssist
    /\ panel = NoPanel
    /\ people = NoPeople
    /\ popup = NoPopup
    /\ \/ \E posts \in PostLists : Given("posts", posts)
       \/ \E text \in NumberTokens : Given("number", text)
       \/ \E text \in TimeTokens : Given("time", text)

CallDedupePosts ==
    /\ calc.fn = "none" /\ calc.arg = "posts"
    /\ calc' = Called("dedupePosts", dedupePosts(calc.input))
    /\ UNCHANGED <<scrapeVars, calls, page, assist, panel, people, popup>>

\* postIdentityKey of every post of a list
CallPostIdentityKey ==
    /\ calc.fn = "none" /\ calc.arg = "posts"
    /\ calc' = Called("postIdentityKey",
                      [i \in 1..Len(calc.input) |-> postIdentityKey(calc.input[i])])
    /\ UNCHANGED <<scrapeVars, calls, page, assist, panel, people, popup>>

\* best_posts as getProfileTopPosts asks for it
CallPickTopPosts ==
    /\ calc.fn = "none" /\ calc.arg = "posts"
    /\ calc' = Called("pickTopPosts",
                      pickTopPosts(calc.input, PROFILE_TOP_POSTS_WINDOW_DAYS,
                                   PROFILE_TOP_POSTS_LIMIT, now))
    /\ UNCHANGED <<scrapeVars, calls, page, assist, panel, people, popup>>

\* new_posts as getProfileTopPosts asks for it
CallPickLatestPosts ==
    /\ calc.fn = "none" /\ calc.arg = "posts"
    /\ calc' = Called("pickLatestPosts", pickLatestPosts(calc.input, PROFILE_NEW_POSTS_LIMIT))
    /\ UNCHANGED <<scrapeVars, calls, page, assist, panel, people, popup>>

CallParseNumberToken ==
    /\ calc.fn = "none" /\ calc.arg = "number"
    /\ calc' = Called("parseNumberToken", parseNumberToken(calc.input))
    /\ UNCHANGED <<scrapeVars, calls, page, assist, panel, people, popup>>

CallParsePublishedIso ==
    /\ calc.fn = "none" /\ calc.arg = "time"
    /\ \E direct \in DirectOutcomes(cleanText(calc.input)) :
          calc' = Called("parsePublishedIso", parsePublishedIso(calc.input, direct, now))
    /\ UNCHANGED <<scrapeVars, calls, page, assist, panel, people, popup>>

CalcNext ==
    \/ CallDedupePosts
    \/ CallParsePublishedIso
    \/ CallParseNumberToken
    \/ CallPickLatestPosts
    \/ CallPickTopPosts
    \/ CallPostIdentityKey

CalcSpec == CalcInit /\ [][CalcNext]_vars

\* ------------------------------------------------------------ claims
Settled == lastTurn.kind = "settled"
SettledRun == Val(lastTurn.snapshot)
Keys == {runs[r].key : r \in RunIds} \cup DOMAIN topPostsInflight \cup DOMAIN topPostsJobs

\* C1: single flight. At most one run is in flight per profile key; a request that
\* arrives while a run for its key is in flight (and is not served from a fresh
\* cache) opens no tab and awaits that very run; every awaiting request is
\* answered by the run it awaits, with that run's one result.
SingleFlightOneTab ==
    /\ \A key \in Keys : Cardinality(LiveFor(key)) <= 1
    /\ (lastTurn.kind = "get" /\ lastTurn.liveBefore # {} /\ lastTurn.replies = {})
          => /\ ~lastTurn.started
             /\ lastTurn.run \in lastTurn.liveBefore
             /\ lastTurn.req \in Awaiting(lastTurn.run)
             /\ lastTurn.req \notin DOMAIN tabs
    /\ \A q \in DOMAIN requests :
          /\ requests[q].awaiting \in RunIds
          /\ runs[requests[q].awaiting].key = requests[q].key
    /\ Settled =>
          /\ lastTurn.run \in {x.to : x \in lastTurn.replies}
          /\ \A x \in lastTurn.replies, y \in lastTurn.replies : x.response = y.response
          /\ \A q \in DOMAIN requests : requests[q].key # SettledRun.key

\* C1 witness: one job that opened a tab has just answered two callers
TwoCallersOneJob ==
    /\ Settled
    /\ SettledRun.tabId > 0
    /\ Cardinality(lastTurn.replies) = 2

\* C2: a run that opened a tab has called safeCloseTab on it, and has cleared
\* job.tabId, by the time its promise settles, whichever way it ends.
TabCloseRequestedOnEveryExit ==
    (Settled /\ SettledRun.tabId > 0)
       => /\ SettledRun.closeCalled
          /\ SettledRun.job.tabId = 0

\* C2 witness: the exit after the last transient messaging failure
ClosedAfterRetriesExhausted ==
    /\ Settled
    /\ SettledRun.tabId > 0
    /\ SettledRun.pending.kind = "error"
    /\ SettledRun.pending.error.message = ReceivingEndMsg
    /\ SettledRun.closeCalled

\* C3: when a run on which a cancel was received settles, the tab it opened is gone.
CancelledJobTabClosed ==
    (Settled /\ SettledRun.job.cancelled /\ SettledRun.tabId > 0) => lastTurn.tabGone

\* C3 witness: the cancel arrived before chrome.tabs.create resolved (job.tabId was
\* still null, so the cancel handler closed nothing) and the tab is gone all the same
CancelledBeforeCreateResolved ==
    /\ Settled
    /\ SettledRun.job.cancelled
    /\ ~SettledRun.cancelClose
    /\ SettledRun.tabId > 0
    /\ SettledRun.wait = NoWait
    /\ SettledRun.pending.kind = "error"
    /\ isCancelledError(SettledRun.pending.error)
    /\ lastTurn.tabGone

\* C4 (as claimed): a run on which a cancel was received while its tab was open
\* (so that the cancel handler itself closed the tab) answers ok: true, with the
\* payload cached before the run if there is one and else with reason 'cancelled'.
CancelNeverAnError ==
    (Settled /\ SettledRun.job.cancelled /\ SettledRun.cancelClose)
       => \A x \in lastTurn.replies :
             /\ x.response.ok
             /\ x.response.data = Some(IF ~IsNull(SettledRun.cached)
                                       THEN Val(SettledRun.cached).payload
                                       ELSE CancelledResult)

\* C5: a request that finds a cache entry younger than the TTL is answered with
\* that entry's payload and starts nothing (no run, no job, no tab, cache kept);
\* a request that finds an entry aged TTL or more is not answered from the cache.
FreshCacheServedStaleNot ==
    (lastTurn.kind = "get" /\ ~IsNull(lastTurn.cachedBefore))
       => LET e == Val(lastTurn.cachedBefore)
              q == lastTurn.req
          IN /\ (now - e.updatedAt < TOP_POSTS_CACHE_TTL_MS)
                   => /\ lastTurn.replies = {[to |-> q, response |-> OkResponse(e.payload)]}
                      /\ ~lastTurn.started
                      /\ lastTurn.run = 0
                      /\ q \notin RunIds /\ q \notin DOMAIN tabs /\ q \notin DOMAIN requests
                      /\ \E k \in DOMAIN topPostsCache :
                            topPostsCache[k] = e /\ k \notin DOMAIN topPostsJobs
             /\ (now - e.updatedAt >= TOP_POSTS_CACHE_TTL_MS) => lastTurn.replies = {}

\* C5 witness: an entry one time unit short of the TTL has just been served
CacheServedJustBeforeTtl ==
    /\ lastTurn.kind = "get"
    /\ ~IsNull(lastTurn.cachedBefore)
    /\ now - Val(lastTurn.cachedBefore).updatedAt = TOP_POSTS_CACHE_TTL_MS - 1
    /\ lastTurn.replies # {}

\* C6: per key at most one run is in flight, and topPostsJobs and topPostsInflight
\* hold exactly the keys of the runs in flight (each pointing at that run); when a
\* run ends, by any outcome, neither map keeps its key; a request that finds no
\* run in flight and no fresh cache starts a new run.
JobLifecycle ==
    /\ \A key \in Keys : Cardinality(LiveFor(key)) <= 1
    /\ DOMAIN topPostsJobs = {runs[r].key : r \in RunIds}
    /\ DOMAIN topPostsInflight = {runs[r].key : r \in RunIds}
    /\ \A k \in DOMAIN topPostsJobs :
          /\ topPostsJobs[k] \in RunIds
          /\ runs[topPostsJobs[k]].key = k
          /\ topPostsInflight[k] = topPostsJobs[k]
    /\ Settled =>
          /\ SettledRun.key \notin DOMAIN topPostsJobs
          /\ SettledRun.key \notin DOMAIN topPostsInflight
          /\ LiveFor(SettledRun.key) = {}
    /\ (lastTurn.kind = "get" /\ lastTurn.liveBefore = {} /\ lastTurn.replies = {})
          => /\ lastTurn.started
             /\ lastTurn.run \in RunIds
             /\ runs[lastTurn.run].pc = "creating"

\* C6 witness: Succeeded -> Idle -> Scraping: the earlier job left a cache entry,
\* now stale, and the new request has started another run
NewScrapeAfterJobEnded ==
    /\ lastTurn.kind = "get"
    /\ lastTurn.started
    /\ ~IsNull(lastTurn.cachedBefore)
    /\ lastTurn.liveBefore = {}

\* C7 (as claimed): a run that fails on the load timeout or on the tab closing
\* before it loaded answers with the cached payload when a cache entry exists,
\* and fails when none exists.
NavigationFailureFallsBackToCache ==
    (/\ Settled
     /\ SettledRun.pending.kind = "error"
     /\ SettledRun.pending.error.message \in {LoadTimeoutMsg, TabClosedMsg})
       => \A x \in lastTurn.replies :
             IF ~IsNull(SettledRun.cached)
             THEN x.response = OkResponse(Val(SettledRun.cached).payload)
             ELSE ~x.response.ok

InWait(run) == run.pc \in {"waitLoad", "waitReload"}

\* C8: resolve/reject of a wait is reached at most once; while the coroutine
\* awaits it the timer and both listeners are set and the clock has not passed
\* start + TAB_LOAD_TIMEOUT_MS; the coroutine is past it exactly when it is
\* settled, and then timer and listeners are gone; it went on (sleep) only on a
\* complete tab, and failed with the timeout only at or after the deadline and
\* with 'closed before loading' only on a tab that is gone; both fail the job.
TabLoadWaitSettlesOnce ==
    \A r \in RunIds :
       LET run == runs[r]
           w == run.wait
           failedWith(msg) == run.pc = "closing" /\ run.pending.kind = "error"
                              /\ run.pending.error.message = msg
       IN /\ w.calls <= 1
          /\ w.settled <=> w.calls = 1
          /\ w.settled => (~w.timer /\ ~w.onUpdated /\ ~w.onRemoved)
          /\ InWait(run) => /\ ~w.settled /\ w.timer /\ w.onUpdated /\ w.onRemoved
                            /\ now <= w.deadline
                            /\ w.deadline - TAB_LOAD_TIMEOUT_MS <= now
          /\ (~InWait(run) /\ run.waits > 0) => w.settled
          /\ run.pc \in {"sleep1", "sleep2"}
                => (TabOpen(run.tabId) => tabs[run.tabId] = "complete")
          /\ failedWith(LoadTimeoutMsg) => now >= w.deadline
          /\ failedWith(TabClosedMsg) => ~TabOpen(run.tabId)
          /\ (Settled /\ SettledRun.pending.kind = "error"
              /\ SettledRun.pending.error.message \in {LoadTimeoutMsg, TabClosedMsg})
                => \A x \in lastTurn.replies : ~x.response.ok

\* C8 witness: the wait resolved on 'complete'; afterwards the tab was removed and
\* chrome.tabs.get answered, and the coroutine is still where the resolve put it
LateEventsAfterResolve ==
    \E r \in RunIds :
       /\ runs[r].pc = "sleep1"
       /\ runs[r].wait.settled
       /\ runs[r].wait.calls = 1
       /\ ~runs[r].wait.getPending
       /\ ~TabOpen(runs[r].tabId)

\* C9 (amended): at most 3 sends in all, so at most 2 retries; a retry (reload,
\* wait for load, sleep) is entered only from a 'Receiving end does not exist'
\* rejection of send 1 or 2; every send after the first has its own reload and
\* wait before it; that rejection propagates only from the third send.
SendAttemptsBounded ==
    /\ \A r \in RunIds :
          LET run == runs[r]
          IN /\ run.attempt <= attempts
             /\ run.reloads <= attempts - 1
             /\ run.pc \in {"reloading", "waitReload", "sleep2"}
                   => /\ run.caught = ReceivingEndMsg
                      /\ run.attempt \in 1..(attempts - 1)
                      /\ run.reloads = run.attempt
             /\ run.pc \in {"waitReload", "sleep2"} => run.waits = run.reloads + 1
             /\ run.pc = "sending"
                   => /\ run.attempt >= 1
                      /\ run.reloads = run.attempt - 1
                      /\ run.waits = run.attempt
             /\ (run.pc = "closing" /\ run.pending.kind = "error"
                 /\ run.pending.error.message = ReceivingEndMsg)
                   => run.attempt = attempts
             /\ (run.pc = "closing" /\ run.pending.kind = "error"
                 /\ run.pending.error.message = ChannelClosedMsg)
                   => run.reloads = run.attempt - 1
    /\ (Settled /\ SettledRun.pending.kind = "error"
        /\ SettledRun.pending.error.message \in {ReceivingEndMsg, ChannelClosedMsg})
          => \A x \in lastTurn.replies :
                ~x.response.ok /\ x.response.error = SettledRun.pending.error.message

\* C9 witness: the third send has failed transiently and the error is on its way out
ThirdSendFailed ==
    \E r \in RunIds :
       /\ runs[r].pc = "closing"
       /\ runs[r].pending.kind = "error"
       /\ runs[r].pending.error.message = ReceivingEndMsg
       /\ runs[r].attempt = 3
       /\ runs[r].reloads = 2

\* C9 (as claimed): the retry budget is 3 retries, so a 'Receiving end does not
\* exist' rejection propagates only once 3 retries (reloads) have been made.
RetriedThreeTimes ==
    \A r \in RunIds :
       (runs[r].pc = "closing" /\ runs[r].pending.kind = "error"
        /\ runs[r].pending.error.message = ReceivingEndMsg)
          => runs[r].reloads = 3

\* C10 (as claimed): every result has the six fields, a reason among the four,
\* and a null reason exactly when it carries a post.
ResultShape ==
    \A x \in lastTurn.replies :
       (lastTurn.kind \in {"get", "settled"} /\ x.response.ok) =>
          LET d == Val(x.response.data)
          IN /\ DOMAIN d = {"person", "posts", "best_posts", "new_posts", "reason", "source"}
             /\ d.reason \in {Null, Some("not_profile_page"), Some("no_posts_in_period"),
                              Some("cancelled")}
             /\ IsNull(d.reason) <=> Len(d.posts) > 0

\* C11: a URL that is not a profile URL (wrong host, path not /in/<slug>, empty,
\* unparsable) yields no descriptor, and the request for it is answered in its
\* own turn with reason 'not_profile_page' (ok: true, nothing thrown) while the
\* cache, both job maps, the runs, the tabs and the pending requests stay as
\* they were.
NonProfileUrlAnsweredAtOnce ==
    [][\A url \in NonProfileUrls, created \in BOOLEAN :
          GetTopPosts(url, created)
             => /\ IsNull(parseLinkedInProfile(url))
                /\ lastTurn'.replies = {[to |-> issued', response |-> OkResponse(NotProfileResult)]}
                /\ ~lastTurn'.started
                /\ UNCHANGED <<topPostsCache, topPostsInflight, topPostsJobs, runs, tabs,
                               requests>>]_vars

\* C11 witness: a non-profile request has just been answered while a job for a
\* profile is in flight with its tab open
NotProfileAnsweredBesideJob ==
    /\ lastTurn.kind = "get"
    /\ lastTurn.replies = {[to |-> lastTurn.req, response |-> OkResponse(NotProfileResult)]}
    /\ RunIds # {}
    /\ TabIds # {}

\* C12: every response carries a boolean ok, and an error string when ok is
\* false; a request whose handling ends in a turn (answered in the listener, or
\* its promise settled) gets exactly one response in that turn and no other
\* request gets one; a cancel message is answered once, in its own turn; a
\* request still waiting has its channel open.
EveryRequestAnsweredOnce ==
    [][LET pendingBefore == DOMAIN requests \cup DOMAIN calls
           pendingAfter == DOMAIN requests' \cup DOMAIN calls'
           arrived == IF issued' > issued THEN {issued'} ELSE {}
           completed == (pendingBefore \cup arrived) \ pendingAfter
           repliesTo(q) == {x \in lastTurn'.replies : x.to = q}
       IN /\ \A x \in lastTurn'.replies :
                /\ x.response.ok \in BOOLEAN
                /\ ~x.response.ok => /\ "error" \in DOMAIN x.response
                                      /\ x.response.error \in STRING
          /\ \A q \in completed : Cardinality(repliesTo(q)) = 1
          /\ \A x \in lastTurn'.replies : x.to \in completed \cup {0}
          /\ Cardinality(repliesTo(0)) = IF lastTurn'.kind = "cancel" THEN 1 ELSE 0
          /\ (\E url \in CancelUrls : Cancel(url)) => lastTurn'.kind = "cancel"
          /\ \A q \in DOMAIN calls' : calls'[q].open]_vars

\* C12 witness: a promise rejected with something that is not an Error, and the
\* one response of that request says ok: false with the fallback error string
RejectionAnsweredWithFallback ==
    /\ lastTurn.kind = "call"
    /\ lastTurn.replies = {[to |-> lastTurn.req,
                            response |-> [ok |-> FALSE, error |-> "Unknown error"]]}

\* ---------------------------------------------------------- type check
TypeOK ==
    /\ now \in 0..MaxNow
    /\ issued \in 0..MaxRequests
    /\ DOMAIN topPostsInflight \subseteq {"in/alice"}
    /\ \A r \in RunIds : runs[r].pc \in {"creating", "waitLoad", "sleep1", "sending",
                                          "reloading", "waitReload", "sleep2", "closing"}

\* C17: the in-page extraction ends. Its caps are maxPosts in 10..120 and
\* maxScrollSteps in 3..18 whatever the options; while it runs it is below the post
\* cap and the step cap and its last two scroll attempts were not both fruitless;
\* it stops on the post cap, on two consecutive fruitless scroll attempts or on the
\* step cap; it returns at most maxPosts posts; every started extraction finishes.
ExtractionBounded ==
    /\ page.pc # "none" =>
          /\ page.maxPosts \in 10..120
          /\ page.maxScrollSteps \in 3..18
          /\ page.passes <= page.maxScrollSteps
    /\ page.pc = "sleeping" =>
          /\ Len(page.byKey) < page.maxPosts
          /\ page.step < page.maxScrollSteps
          /\ page.quiet # <<TRUE, TRUE>>
    /\ page.pc = "cap" => Len(page.byKey) >= page.maxPosts
    /\ page.pc = "stall" => page.quiet = <<TRUE, TRUE>> /\ Len(page.byKey) < page.maxPosts
    /\ page.pc = "steps" => page.passes = page.maxScrollSteps
    /\ Finished =>
          LET posts == Val(Val(page.response).data).posts
          IN /\ Len(posts) <= page.maxPosts
             /\ \A i, j \in 1..Len(posts) :
                   postDedupeKey(posts[i]) = postDedupeKey(posts[j]) => i = j

ExtractionTerminates == []ExtractionBounded /\ (Running ~> Finished)

\* C17 witness: the extraction stalled after an earlier scroll attempt that was
\* not fruitless had reset the counter
StalledAfterProgress ==
    page.pc = "stall" /\ page.passes > 3 /\ Len(page.byKey) > 0

\* C18: a post captured in several passes of one extraction reaches the result in
\* its best version: no pass has read, under the key of a returned post, a record
\* that scores higher than the returned one.
BestCaptureReturned ==
    Finished =>
       LET posts == Val(Val(page.response).data).posts
       IN \A i \in 1..Len(posts) : \A c \in page.captured :
             c[1] = postDedupeKey(posts[i]) => scorePost(posts[i]) >= c[2]

\* a beats b in dedupePosts: a higher score, or the same score and a later date
Beats(a, b) ==
    \/ scorePost(a) > scorePost(b)
    \/ /\ scorePost(a) = scorePost(b)
       /\ ~IsNull(postDateMs(a)) /\ ~IsNull(postDateMs(b))
       /\ Val(postDateMs(a)) > Val(postDateMs(b))

CarriedId(post) ==
    IF post.post_url.id # "" THEN post.post_url.id
    ELSE IF post.text = TextWithId THEN "70000001" ELSE ""

\* two texts with the same letters up to case and spacing
SameFingerprint(a, b) == a = b \/ {a, b} = {"We are  Hiring", "we are hiring"}

SameDay(a, b) ==
    \/ IsNull(a.posted_at_ms) /\ IsNull(b.posted_at_ms)
    \/ /\ ~IsNull(a.posted_at_ms) /\ ~IsNull(b.posted_at_ms)
       /\ Val(a.posted_at_ms) \div DayMs = Val(b.posted_at_ms) \div DayMs

UiPost(post) == mapPostForUi(post, scorePost(post))
UiDate(u) == IF IsNull(u.posted_at) THEN EpochMs ELSE Val(u.posted_at)

\* u ranks strictly above v by score, then by recency
RanksAbove(u, v) == u.score > v.score \/ (u.score = v.score /\ UiDate(u) > UiDate(v))

WithinWindow(post) ==
    /\ ~IsNull(post.posted_at_ms)
    /\ Val(post.posted_at_ms) >= now - PROFILE_TOP_POSTS_WINDOW_DAYS * DayMs

\* the first n records of a pool of records under a ranking: out has
\* min(n, size of the pool) distinct members of the pool and leaves out none that
\* ranks above one it has
TopOfPool(out, pool, n) ==
    /\ Len(out) = IF Cardinality(pool) < n THEN Cardinality(pool) ELSE n
    /\ \A k \in 1..Len(out) : out[k] \in pool
    /\ \A k, l \in 1..Len(out) : out[k] = out[l] => k = l

\* C15: best_posts holds the 10 best of the deduplicated records dated within 90
\* days, or of all deduplicated records when none is dated within 90 days, the
\* best being the higher score and, at equal scores, the later date; it comes in
\* that order, and it is empty only when there is no post at all.
BestPostsRanked ==
    calc.fn = "pickTopPosts" =>
       LET uniquePosts == dedupePosts(calc.input)
           all == {UiPost(uniquePosts[i]) : i \in 1..Len(uniquePosts)}
           recent == {UiPost(uniquePosts[i]) :
                        i \in {j \in 1..Len(uniquePosts) : WithinWindow(uniquePosts[j])}}
           pool == IF recent # {} THEN recent ELSE all
           out == calc.output
       IN /\ TopOfPool(out, pool, 10)
          /\ \A k, l \in 1..Len(out) : k < l => ~RanksAbove(out[l], out[k])
          /\ \A u \in pool : \A k \in 1..Len(out) : RanksAbove(u, out[k]) =>
                \E l \in 1..Len(out) : out[l] = u
          /\ calc.input # <<>> => out # <<>>

\* C15 witness: every post is older than the window, two of them remain after
\* deduplication, and best_posts gives both, the higher score first
BestPostsFallBack ==
    /\ calc.fn = "pickTopPosts" /\ calc.input # <<>>
    /\ \A i \in 1..Len(calc.input) : ~WithinWindow(calc.input[i])
    /\ Len(calc.output) = 2 /\ calc.output[1].score > calc.output[2].score

\* u comes strictly before v in new_posts: dated before undated, the later date
\* among dated records, the higher score among undated ones
NewerThan(u, v) ==
    \/ ~IsNull(u.posted_at) /\ IsNull(v.posted_at)
    \/ ~IsNull(u.posted_at) /\ ~IsNull(v.posted_at) /\ Val(u.posted_at) > Val(v.posted_at)
    \/ IsNull(u.posted_at) /\ IsNull(v.posted_at) /\ u.score > v.score

\* C16: new_posts holds the first 5 of the deduplicated records taken in this
\* order: the dated ones from the latest to the earliest, whether or not they fall
\* within the 90 days, then the undated ones from the highest score down.
NewPostsRanked ==
    calc.fn = "pickLatestPosts" =>
       LET uniquePosts == dedupePosts(calc.input)
           all == {UiPost(uniquePosts[i]) : i \in 1..Len(uniquePosts)}
           out == calc.output
       IN /\ TopOfPool(out, all, 5)
          /\ \A k, l \in 1..Len(out) : k < l => ~NewerThan(out[l], out[k])
          /\ \A u \in all : \A k \in 1..Len(out) : NewerThan(u, out[k]) =>
                \E l \in 1..Len(out) : out[l] = u

\* C16 witness: a dated post older than the window with a low score comes before
\* an undated post with a higher score, and a later post with the lowest score
\* comes first
NewPostsDatedFirst ==
    /\ calc.fn = "pickLatestPosts" /\ Len(calc.output) = 3
    /\ ~IsNull(calc.output[1].posted_at) /\ ~IsNull(calc.output[2].posted_at)
    /\ Val(calc.output[2].posted_at) < now - PROFILE_TOP_POSTS_WINDOW_DAYS * DayMs
    /\ IsNull(calc.output[3].posted_at)
    /\ calc.output[1].score < calc.output[2].score
    /\ calc.output[2].score < calc.output[3].score

\* C19: parseNumberToken gives 1234 for "1,234", 1234 or 1235 for "1.234,5", 2500
\* for "2.5K" and 3000 for "3 tys." (in Cyrillic: the abbreviation of thousand);
\* it gives null for a text that is empty or has no digit, and a natural number
\* whenever it gives a number.
NumberTokensNormalized ==
    calc.fn = "parseNumberToken" =>
       /\ calc.input = Chars("1,234") => calc.output = Some(1234)
       /\ calc.input = Chars("1.234,5") => calc.output \in {Some(1234), Some(1235)}
       /\ calc.input = Chars("2.5K") => calc.output = Some(2500)
       /\ calc.input = Chars("3 ") \o Cyr("tys") \o <<".">> => calc.output = Some(3000)
       /\ (\A i \in 1..Len(calc.input) : ~IsDigit(calc.input[i])) => calc.output = Null
       /\ calc.output # Null => Val(calc.output) \in Nat

\* C20: parsePublishedIso gives now - 3h for "3h", now - 14d for "2 nedeli" (in
\* Cyrillic: two weeks) and now - 365d for "1 year", and null for a unit it does
\* not know and for a count of 0.
RelativeTimesResolved ==
    calc.fn = "parsePublishedIso" =>
       /\ calc.input = Chars("3h") => calc.output = Some(now - 3 * HourMs)
       /\ calc.input = Chars("2 ") \o Cyr("nedeli") => calc.output = Some(now - 14 * DayMs)
       /\ calc.input = Chars("1 year") => calc.output = Some(now - 365 * DayMs)
       /\ calc.input \in {Chars("5 parsecs"), Chars("0 days")} => calc.output = Null

\* =====================================================================
\* Comment assist of the content script: the state machine behind the
\* block that is mounted above a post's comment editor in the feed.
\* Russian text of the source is written in Latin transliteration.
\* =====================================================================

\* ---------------------------------------------------------- strings
\* String.prototype.includes
includes(s, sub) ==
    \E i \in 1..(Len(s) - Len(sub) + 1) : SubSeq(s, i, i + Len(sub) - 1) = sub

UpperLetters == "ABCDEFGHIJKLMNOPQRSTUVWXYZ"
LowerLetters == "abcdefghijklmnopqrstuvwxyz"

lowerLetter(c) ==
    IF \E i \in 1..Len(UpperLetters) : SubSeq(UpperLetters, i, i) = c
    THEN LET i == CHOOSE j \in 1..Len(UpperLetters) : SubSeq(UpperLetters, j, j) = c
         IN SubSeq(LowerLetters, i, i)
    ELSE c

\* String.prototype.toLowerCase
RECURSIVE toLowerCase(_)
toLowerCase(s) ==
    IF Len(s) = 0 THEN "" ELSE lowerLetter(SubSeq(s, 1, 1)) \o toLowerCase(SubSeq(s, 2, Len(s)))

\* String.prototype.trim, for the blanks the texts here can hold
RECURSIVE trim(_)
trim(s) ==
    IF Len(s) > 0 /\ SubSeq(s, 1, 1) = " " THEN trim(SubSeq(s, 2, Len(s)))
    ELSE IF Len(s) > 0 /\ SubSeq(s, Len(s), Len(s)) = " " THEN trim(SubSeq(s, 1, Len(s) - 1))
    ELSE s

startsWith(s, prefix) == Len(s) >= Len(prefix) /\ SubSeq(s, 1, Len(prefix)) = prefix

\* s without its first n characters
dropFirst(s, n) == SubSeq(s, n + 1, Len(s))

\* the match of [:\-]* at the start of s is dropped
RECURSIVE dropMarks(_)
dropMarks(s) ==
    IF startsWith(s, ":") \/ startsWith(s, "-") THEN dropMarks(dropFirst(s, 1)) ELSE s

VariantKeys == <<"short", "medium", "long">>

\* /^\[\s*(short|medium|long)\s*\]\s*[:\-]*\s*/i replaced by "", then trim
stripBracketLabel(text) ==
    IF ~startsWith(text, "[") THEN text
    ELSE LET inner == trim(dropFirst(text, 1))
             low == toLowerCase(inner)
         IN IF \E i \in 1..3 : startsWith(low, VariantKeys[i])
            THEN LET i == CHOOSE j \in 1..3 : startsWith(low, VariantKeys[j])
                     after == trim(dropFirst(inner, Len(VariantKeys[i])))
                 IN IF startsWith(after, "]")
                    THEN trim(dropMarks(trim(dropFirst(after, 1))))
                    ELSE text
            ELSE text

\* /^(short|medium|long)\s*[:\-]\s*/i replaced by "", then trim
stripPlainLabel(text) ==
    LET low == toLowerCase(text)
    IN IF \E i \in 1..3 : startsWith(low, VariantKeys[i])
       THEN LET i == CHOOSE j \in 1..3 : startsWith(low, VariantKeys[j])
                after == trim(dropFirst(text, Len(VariantKeys[i])))
            IN IF startsWith(after, ":") \/ startsWith(after, "-")
               THEN trim(dropFirst(after, 1))
               ELSE text
       ELSE text

\* one round of the patterns, each applied to what the one before left (the
\* heading and quoted-key patterns need a leading # or quote, the word-count
\* group a parenthesis: no text here has them)
stripLabelRound(text) == stripPlainLabel(stripBracketLabel(text))

\* stripCommentVariantLabel and the stripVariantLabel of normalizeGeneratedVariants:
\* up to three rounds
stripCommentVariantLabel(rawText) ==
    LET text == trim(rawText)
    IN IF text = "" THEN "" ELSE stripLabelRound(stripLabelRound(stripLabelRound(text)))

stripVariants(variants) ==
    [short |-> stripCommentVariantLabel(variants.short),
     medium |-> stripCommentVariantLabel(variants.medium),
     long |-> stripCommentVariantLabel(variants.long)]

\* mutant: long is preferred
getDefaultCommentVariantKeyLongFirst(variants) ==
    IF trim(variants.long) # "" THEN "long"
    ELSE IF trim(variants.medium) # "" THEN "medium"
    ELSE IF trim(variants.short) # "" THEN "short"
    ELSE ""

getDefaultCommentVariantKey(variants) ==
    IF trim(variants.medium) # "" THEN "medium"
    ELSE IF trim(variants.short) # "" THEN "short"
    ELSE IF trim(variants.long) # "" THEN "long"
    ELSE ""

\* getAvailableCommentVariants: the keys that have a text
getAvailableCommentVariants(variants) ==
    IF IsNull(variants) THEN {}
    ELSE {key \in {"short", "medium", "long"} : trim(Val(variants)[key]) # ""}

\* ------------------------------------------------ the backend's answers
BackendUrl == "http://localhost:8000"

\* what fetch and the backend can do to a request: the fetch fails (status 0), or
\* the backend answers with a status and a payload whose own message (detail, error
\* or message) may be empty
HttpFailures ==
    {[status |-> 0, message |-> ""],
     [status |-> 401, message |-> ""], [status |-> 401, message |-> "Not authenticated"],
     [status |-> 401, message |-> "Unauthorized"],
     [status |-> 403, message |-> ""], [status |-> 403, message |-> "Forbidden"],
     [status |-> 404, message |-> ""], [status |-> 404, message |-> "Not Found"]}

StatusText(status) ==
    CASE status = 401 -> "401" [] status = 403 -> "403" [] status = 404 -> "404"
      [] OTHER -> "0"

\* toBackendErrorMessage: the payload's own message, else "Request failed (HTTP n)"
toBackendErrorMessage(status, message) ==
    IF message # "" THEN message ELSE "Request failed (HTTP " \o StatusText(status) \o ")"

\* backendRequest's catch around fetch
NetworkErrorMessage == "Network error. Can't reach backend at " \o BackendUrl \o ". Failed to fetch"

\* backendRequest: the message of the error it throws for a failure
backendError(f) ==
    IF f.status = 0 THEN NetworkErrorMessage ELSE toBackendErrorMessage(f.status, f.message)

\* result.comments of the comment agent
AgentComments ==
    {[short |-> "Agreed.", medium |-> "Agreed, thanks.", long |-> "Agreed, at length."],
     [short |-> "Short: Agreed.", medium |-> "[Medium]", long |-> "long - Agreed, at length."],
     [short |-> "", medium |-> " ", long |-> "Agreed, at length."],
     [short |-> "", medium |-> "medium:", long |-> ""]}

\* generateCommentVariantsForPost and the listener's sendResponse: the response
\* to MYVOICE_GENERATE_COMMENT_VARIANTS
generationFailed(error) == [ok |-> FALSE, error |-> error, variants |-> Null]

generationResponse(comments) ==
    LET normalized == stripVariants(comments)
    IN IF normalized.short = "" /\ normalized.medium = "" /\ normalized.long = ""
       THEN generationFailed("No comment variants were returned.")
       ELSE [ok |-> TRUE, error |-> "", variants |-> Some(normalized)]

\* the variants a response can carry, and what stripCommentVariantLabel makes of
\* them, worked out once
ResponseVariants == {stripVariants(c) : c \in AgentComments}
StrippedVariants == [v \in ResponseVariants |-> stripVariants(v)]
StrippedTexts ==
    [text \in {v[key] : v \in ResponseVariants, key \in {"short", "medium", "long"}}
        |-> stripCommentVariantLabel(text)]

\* what the await of sendRuntimeMessageSafe can bring: a response, or a rejection
\* (thrown |-> TRUE) with the error's message
GenerationOutcomes ==
    {[thrown |-> FALSE, response |-> generationResponse(c)] : c \in AgentComments}
    \cup {[thrown |-> FALSE, response |-> generationFailed(backendError(f))] : f \in HttpFailures}
    \cup {[thrown |-> TRUE, response |-> generationFailed(ReceivingEndMsg)]}

\* the authors of the setup draft, as normalizeCommentAssistAuthors leaves them
Author(key, name) == [key |-> key, full_name |-> name]
Ann == Author("ln:https://www.linkedin.com/in/ann", "Ann Lee")
Bob == Author("ln:https://www.linkedin.com/in/bob", "Bob Ray")

AuthorLists == {<<>>, <<Ann, Bob>>}

\* the response to MYVOICE_GET_SETUP_AUTHORS
AuthorsOutcomes ==
    {[ok |-> TRUE, error |-> "", authors |-> list] : list \in AuthorLists}
    \cup {[ok |-> FALSE, error |-> NetworkErrorMessage, authors |-> <<>>]}

\* ------------------------------------------------------ the status line
GenericErrorText == "Oshibka generacii kommentariq."
NetworkText == "Net svqzi s backend. Proverx adres v extension options."
LoginText == "Nuzhen vhod v MyVOICE. Otkroj extension options i nazhmi Open Login."
ForbiddenText == "Dostup k generacii ogranichen. Proverx tarif ili limity."
NotFoundText == "Servis generacii ne najden na backend."
NoAuthorText == "Vyberite avtora v bloke MyVOICE's i poprobujte snova."

AddAuthorMessage == "Dobavxte avtora v MyVOICE Settings i vyberite ego."
NoVariantsMessage == "Server ne vernul varianty."
EmptyAnswerMessage == "Poluchen pustoj otvet ot generatora."
NoEditorMessage == "Pole kommentariq ne najdeno. Nazhmite Comment i povtorite."
ClickIntoFieldText == "Nazhmite v pole kommentariq, chtoby podstavitx tekst."
SendingText == "Otpravlqu zapros v MyVOICE..."

\* mutant: 404 is looked for before 401
errorTextNotFoundFirst(msg) ==
    LET low == toLowerCase(msg)
    IN IF includes(low, "can't reach backend") \/ includes(low, "failed to fetch")
          \/ includes(low, "network error") THEN NetworkText
       ELSE IF includes(low, "404") THEN NotFoundText
       ELSE IF includes(low, "401") \/ includes(low, "unauthorized") THEN LoginText
       ELSE IF includes(low, "403") THEN ForbiddenText
       ELSE IF includes(low, "avtor") /\ (includes(low, "ne vybran") \/ includes(low, "dobav"))
       THEN NoAuthorText
       ELSE IF msg = "" THEN GenericErrorText ELSE msg

\* setCommentAssistError's choice of the text
errorText(msg) ==
    LET low == toLowerCase(msg)
    IN IF includes(low, "can't reach backend") \/ includes(low, "failed to fetch")
          \/ includes(low, "network error") THEN NetworkText
       ELSE IF includes(low, "401") \/ includes(low, "unauthorized") THEN LoginText
       ELSE IF includes(low, "403") THEN ForbiddenText
       ELSE IF includes(low, "404") THEN NotFoundText
       ELSE IF includes(low, "avtor") /\ (includes(low, "ne vybran") \/ includes(low, "dobav"))
       THEN NoAuthorText
       ELSE IF msg = "" THEN GenericErrorText ELSE msg

\* the messages a generation can fail with
FailureMessages ==
    {backendError(f) : f \in HttpFailures}
    \cup {"", AddAuthorMessage, NoVariantsMessage, EmptyAnswerMessage, NoEditorMessage,
          ReceivingEndMsg, "No comment variants were returned."}

\* errorText, worked out once for each of them
ErrorTexts == [msg \in FailureMessages |-> errorText(trim(msg))]

setCommentAssistError(st, rawMessage) ==
    [st EXCEPT !.statusText = ErrorTexts[rawMessage], !.statusKind = "error"]

setCommentAssistStatus(st, text, kind) ==
    [st EXCEPT !.statusText = trim(text),
               !.statusKind = IF kind = "error" \/ kind = "ok" THEN kind ELSE ""]

commentVariantLabel(key) ==
    CASE key = "short" -> "Korotkij" [] key = "medium" -> "Srednij" [] key = "long" -> "Dlinnyj"
      [] OTHER -> key

\* ------------------------------------------------------ the feed's nodes
MaxNodes == 3
MaxAssistRequests == 4
MaxClock == 1

\* refreshCommentAssist's `recentlyTargeted`
RECENTLY_TARGETED_MS == 3500

\* the clock moves in steps of this many ms
ClockStepMs == RECENTLY_TARGETED_MS

\* node.isConnected, for the container with number n (0 is null)
isConnected(dom, n) == n \in DOMAIN dom /\ dom[n].connected

\* the container is attached and its comment box, with the editor, is open
hasBox(dom, n) == isConnected(dom, n) /\ dom[n].box

\* findLinkedInCommentEditor(article) and article.querySelector(".comments-comment-box")
editorIn(dom, n) == IF hasBox(dom, n) THEN n ELSE 0

\* findLinkedInCommentEditor() and findVisibleLinkedInCommentBox() over the whole
\* document return the best-scored candidate; the score is a matter of layout and
\* focus, so any attached editor can be the one (0 when there is none)
DocumentPicks(dom) ==
    IF \E n \in DOMAIN dom : hasBox(dom, n) THEN {n \in DOMAIN dom : hasBox(dom, n)} ELSE {0}

\* deriveActivityIdForContainer
deriveActivityIdForContainer(dom, n) == dom[n].post

\* mutant: no container is found again by its activity id
findNoContainerForActivityId(dom, activityId) == 0

\* findLinkedInPostContainerForActivityId: an attached container that carries the id
findLinkedInPostContainerForActivityId(dom, activityId) ==
    LET found == {n \in DOMAIN dom : dom[n].connected /\ dom[n].post = activityId}
    IN IF found = {} THEN 0 ELSE CHOOSE n \in found : \A m \in found : m <= n

\* commentAssistPostKeyFromEditor: the key of the post whose container holds the editor
commentAssistPostKeyFromEditor(dom, n) ==
    IF n \in DOMAIN dom THEN "urn:li:activity:" \o dom[n].post ELSE ""

\* setCommentAssistTargetFromNode for a node inside the comment box of container n
setCommentAssistTargetFromNode(dom, n, nowMs) ==
    [article |-> n, box |-> n, activityId |-> deriveActivityIdForContainer(dom, n),
     updatedAt |-> nowMs]

\* the click listener's branch for a Comment button of container n
targetFromCommentButton(dom, n, nowMs) ==
    [article |-> n, box |-> editorIn(dom, n),
     activityId |-> deriveActivityIdForContainer(dom, n), updatedAt |-> nowMs]

\* the post the target stands for
TargetPost(a) ==
    IF a.target.article \in DOMAIN a.dom THEN a.dom[a.target.article].post
    ELSE IF a.target.box \in DOMAIN a.dom THEN a.dom[a.target.box].post
    ELSE ""

\* ------------------------------------------------------------ the state
\* the outstanding generation requests, each marked as one a reset has cut off
\* (the mark is for the properties: the program does not read it)
cutOff(gens) == {[g EXCEPT !.cut = TRUE] : g \in gens}

\* mutant: the reset forgets the authors
resetForgetsAuthors(a, nextPostKey) ==
    [a EXCEPT !.ticker = 0,
              !.step.note = "reset",
              !.gens = cutOff(@),
              !.commentAssistRequestId = @ + 1,
              !.state = [InitialCommentAssistState EXCEPT !.postKey = nextPostKey]]

\* mutant: the reset leaves the request id as it is
resetKeepsRequestId(a, nextPostKey) ==
    [a EXCEPT !.ticker = 0,
              !.step.note = "reset",
              !.gens = cutOff(@),
              !.state = [a.state EXCEPT !.postKey = nextPostKey, !.generating = FALSE,
                                        !.variants = Null, !.activeVariant = "",
                                        !.statusText = "", !.statusKind = ""]]

resetCommentAssistState(a, nextPostKey) ==
    [a EXCEPT !.ticker = 0,
              !.step.note = "reset",
              !.gens = cutOff(@),
              !.commentAssistRequestId = @ + 1,
              !.state = [postKey |-> nextPostKey, generating |-> FALSE, variants |-> Null,
                         activeVariant |-> "", authors |-> a.state.authors,
                         authorsLoaded |-> a.state.authorsLoaded,
                         authorsLoading |-> a.state.authorsLoading,
                         authorsError |-> trim(a.state.authorsError),
                         selectedAuthorKey |-> IF trim(a.state.selectedAuthorKey) # ""
                                               THEN trim(a.state.selectedAuthorKey)
                                               ELSE a.stored,
                         statusText |-> "", statusKind |-> ""]]

\* mutant: every refresh resets
ensureAlwaysResets(a, editor) == resetCommentAssistState(a, commentAssistPostKeyFromEditor(a.dom, editor))

ensureCommentAssistStateForEditor(a, editor) ==
    LET key == commentAssistPostKeyFromEditor(a.dom, editor)
    IN IF key = "" THEN a
       ELSE IF a.state.postKey # key THEN resetCommentAssistState(a, key)
       ELSE a

\* getSelectedCommentAssistAuthor: Null, or the author
getSelectedCommentAssistAuthor(a) ==
    LET authors == a.state.authors
        stateKey == trim(a.state.selectedAuthorKey)
        first(P(_)) == authors[CHOOSE i \in DOMAIN authors :
                                  P(authors[i]) /\ \A j \in 1..(i - 1) : ~P(authors[j])]
        byState(x) == x.key = stateKey
        byStored(x) == x.key = a.stored
        byName(x) == toLowerCase(x.full_name) = toLowerCase(a.stored)
    IN IF authors = <<>> THEN Null
       ELSE IF \E i \in DOMAIN authors : byState(authors[i]) THEN Some(first(byState))
       ELSE IF \E i \in DOMAIN authors : byStored(authors[i]) THEN Some(first(byStored))
       ELSE IF \E i \in DOMAIN authors : byName(authors[i]) THEN Some(first(byName))
       ELSE Some(authors[1])

\* setCommentAssistAuthors, with writePreferredCommentAuthorKey
setCommentAssistAuthors(a, authors) ==
    LET loaded == [a EXCEPT !.state.authors = authors, !.state.authorsLoaded = TRUE,
                            !.state.authorsLoading = FALSE, !.state.authorsError = ""]
        selected == getSelectedCommentAssistAuthor(loaded)
        key == IF IsNull(selected) THEN "" ELSE Val(selected).key
    IN [loaded EXCEPT !.state.selectedAuthorKey = key, !.stored = key]

\* -------------------------------------------------- generating and applying
LoadingAuthorsText == "Zagruzhau avtorov iz sistemy..."
ProgressText == "[1/9] Podgotavlivau kontekst posta..."
AuthorsFailedMessage == "Ne udalosx zagruzitx avtorov iz sistemy."

Stepped(a) == [a EXCEPT !.step = NoStep]

\* fillLinkedInCommentEditor: the text goes into the editor of container n; the
\* editor.focus() in it runs the focusin listener, which targets that editor
fillLinkedInCommentEditor(a, n, text) ==
    [a EXCEPT !.target = setCommentAssistTargetFromNode(a.dom, n, a.clock),
              !.step = [note |-> "inserted", editor |-> n, text |-> trim(text)]]

\* mutant: the variant is marked active and nothing is written
applyWithoutWriting(a, key, pick) == [a EXCEPT !.state.activeVariant = key]

\* applyCommentVariant(key) on the feed; `pick` is what findLinkedInCommentEditor()
\* finds in the whole document
applyCommentVariant(a, key, pick) ==
    LET text == IF IsNull(a.state.variants) \/ key = "" THEN ""
                ELSE StrippedTexts[Val(a.state.variants)[key]]
        scoped == IF isConnected(a.dom, a.target.article) THEN editorIn(a.dom, a.target.article)
                  ELSE 0
        editor == IF scoped # 0 THEN scoped ELSE pick
    IN IF text = "" THEN a
       ELSE IF editor = 0
       THEN [a EXCEPT !.state = setCommentAssistStatus(@, NoEditorMessage, "error"),
                      !.step.note = "no editor"]
       ELSE LET filled == fillLinkedInCommentEditor(a, editor, text)
            IN [filled EXCEPT !.state = setCommentAssistStatus(
                                  [@ EXCEPT !.activeVariant = key],
                                  "Podstavlen variant: " \o commentVariantLabel(key) \o ".", "ok")]

\* mutant: the finally block ends the generation whatever the request id is
finishRunAlways(a, r) == [a EXCEPT !.ticker = 0, !.state.generating = FALSE]

\* the finally block of generateCommentVariants for the run with request id r
finishRun(a, r) ==
    IF r = a.commentAssistRequestId
    THEN [a EXCEPT !.ticker = 0, !.state.generating = FALSE]
    ELSE [a EXCEPT !.ticker = 0]

\* mutant: a failure clears the variants
failRunClearsVariants(a, r, msg) ==
    IF r # a.commentAssistRequestId THEN finishRun([a EXCEPT !.step.note = "stale"], r)
    ELSE finishRun([a EXCEPT !.state = setCommentAssistError(
                        [@ EXCEPT !.variants = Null, !.activeVariant = ""], msg),
                             !.step.note = "failed"], r)

\* the catch block, then the finally block
failRun(a, r, msg) ==
    IF r # a.commentAssistRequestId THEN finishRun([a EXCEPT !.step.note = "stale"], r)
    ELSE finishRun([a EXCEPT !.state = setCommentAssistError(@, msg),
                             !.step.note = "failed"], r)

\* mutant: the request is sent without an author check
continueRunUnchecked(a, r, authors, pick) ==
    [a EXCEPT !.ticker = r,
              !.gens = @ \cup {[id |-> r, author |-> "", cut |-> FALSE]},
              !.lastSent = r,
              !.step.note = "sent"]

\* generateCommentVariants from the first await on, once ensureCommentAssistAuthorsLoaded
\* has returned `authors`: the author check, the editor, the post key, the request
continueRun(a, r, authors, pick) ==
    IF r # a.commentAssistRequestId THEN finishRun([a EXCEPT !.step.note = "stale"], r)
    ELSE LET selected == getSelectedCommentAssistAuthor(a)
             editor == IF isConnected(a.dom, a.target.article)
                       THEN editorIn(a.dom, a.target.article)
                       ELSE pick
         IN IF authors = <<>> \/ IsNull(selected)
            THEN failRun(a, r, IF a.state.authorsError # "" THEN a.state.authorsError
                               ELSE AddAuthorMessage)
            ELSE IF editor = 0 THEN failRun(a, r, NoEditorMessage)
            ELSE LET ensured == ensureCommentAssistStateForEditor(a, editor)
                 IN IF r # ensured.commentAssistRequestId THEN finishRun(ensured, r)
                    ELSE [ensured EXCEPT
                            !.state = setCommentAssistStatus(@, ProgressText, ""),
                            !.ticker = r,
                            !.gens = @ \cup {[id |-> r, author |-> Val(selected).key,
                                              cut |-> FALSE]},
                            !.lastSent = r,
                            !.step.note = "sent"]

\* generateCommentVariants past its guard, up to the point where it first has to wait
startGeneration(a, pick) ==
    LET r == a.commentAssistRequestId + 1
        started == [a EXCEPT !.commentAssistRequestId = r,
                             !.state = setCommentAssistStatus(
                                [@ EXCEPT !.generating = TRUE], LoadingAuthorsText, "")]
    IN IF started.state.authorsLoaded \/ started.state.authorsLoading
       THEN continueRun(started, r, started.state.authors, pick)
       ELSE [started EXCEPT
               !.commentAssistAuthorsRequestId = @ + 1,
               !.state.authorsLoading = TRUE,
               !.loads = @ \cup {[id |-> started.commentAssistAuthorsRequestId + 1,
                                  run |-> r]}]

\* mutant: no guard, a click while generating starts another run
generateUnguarded(a, pick) == startGeneration(a, pick)

\* generateCommentVariants: `if (commentAssistState.generating) return;`
generateCommentVariants(a, pick) ==
    IF a.state.generating THEN [a EXCEPT !.step.note = "ignored"] ELSE startGeneration(a, pick)

\* ensureCommentAssistAuthorsLoaded after its await, for the load l
authorsSettled(a, l, outcome) ==
    IF l.id # a.commentAssistAuthorsRequestId THEN a
    ELSE IF ~outcome.ok
    THEN [a EXCEPT !.state.authors = <<>>, !.state.authorsLoaded = TRUE,
                   !.state.authorsLoading = FALSE,
                   !.state.authorsError = IF outcome.error # "" THEN outcome.error
                                          ELSE AuthorsFailedMessage]
    ELSE setCommentAssistAuthors(a, outcome.authors)

\* generateCommentVariants after the await of the response, for the run g
responseSettled(a, g, outcome, pick) ==
    IF g.id # a.commentAssistRequestId THEN finishRun([a EXCEPT !.step.note = "late"], g.id)
    ELSE IF outcome.thrown THEN failRun(a, g.id, outcome.response.error)
    ELSE LET response == outcome.response
             stopped == [a EXCEPT !.ticker = 0]
         IN IF ~response.ok \/ IsNull(response.variants)
            THEN failRun(stopped, g.id, IF response.error # "" THEN response.error
                                        ELSE NoVariantsMessage)
            ELSE LET variants == StrippedVariants[Val(response.variants)]
                 IN IF getAvailableCommentVariants(Some(variants)) = {}
                    THEN failRun(stopped, g.id, EmptyAnswerMessage)
                    ELSE LET key == getDefaultCommentVariantKey(variants)
                             set == [stopped EXCEPT !.state.variants = Some(variants),
                                                    !.state.activeVariant = key]
                         IN finishRun(applyCommentVariant(set, key, pick), g.id)

\* ------------------------------------------------------------- refresh
\* mutant: the fallback to the visible comment box is also held back for a
\* recently chosen target
fallbackBoxGuarded(a, pickBox) ==
    IF a.clock - a.target.updatedAt < RECENTLY_TARGETED_MS THEN 0 ELSE pickBox

\* findVisibleLinkedInCommentBox() of the fallback
fallbackBox(a, pickBox) == pickBox

\* ensureCommentAssistAuthorsLoaded() at the end of a refresh: a load starts
\* unless the authors are loaded or loading
loadAuthorsOnce(a) ==
    IF ~a.state.authorsLoaded /\ ~a.state.authorsLoading
    THEN [a EXCEPT !.commentAssistAuthorsRequestId = @ + 1,
                   !.state.authorsLoading = TRUE,
                   !.loads = @ \cup {[id |-> a.commentAssistAuthorsRequestId + 1, run |-> 0]}]
    ELSE a

\* refreshCommentAssist, first part: a stale article is healed by the stored
\* activity id, the comment box is found again in the article, and a live box
\* without a live article gives its own container
healTarget(dom, t0) ==
    LET healed == IF ~isConnected(dom, t0.article) /\ t0.activityId # ""
                  THEN findLinkedInPostContainerForActivityId(dom, t0.activityId)
                  ELSE 0
        article == IF healed # 0 THEN healed ELSE t0.article
        box == IF ~hasBox(dom, t0.box) /\ isConnected(dom, article) /\ editorIn(dom, article) # 0
               THEN article ELSE t0.box
    IN [t0 EXCEPT !.article = IF hasBox(dom, box) /\ ~isConnected(dom, article) THEN box
                              ELSE article,
                  !.box = box]

\* whether the refresh searches the whole document for an editor: the article is
\* gone and the target is not a recent one
searchesEditor(a, t3) ==
    ~isConnected(a.dom, t3.article) /\ ~(a.clock - t3.updatedAt < RECENTLY_TARGETED_MS)

\* second part: the editor, and the target after the search of the document
retarget(a, t3, pickEditor) ==
    LET editor == IF isConnected(a.dom, t3.article) THEN editorIn(a.dom, t3.article)
                  ELSE IF searchesEditor(a, t3) THEN pickEditor
                  ELSE 0
    IN [editor |-> editor,
        target |-> IF editor # 0 /\ t3.article # editor
                   THEN setCommentAssistTargetFromNode(a.dom, editor, a.clock) ELSE t3]

\* third part: without a live container the visible comment box becomes the target
anchor(a, r, pickBox) ==
    LET visible == IF isConnected(a.dom, r.target.article) THEN 0
                   ELSE fallbackBox([a EXCEPT !.target = r.target], pickBox)
    IN [editor |-> IF r.editor = 0 /\ visible # 0 THEN editorIn(a.dom, visible) ELSE r.editor,
        target |-> IF visible # 0 THEN setCommentAssistTargetFromNode(a.dom, visible, a.clock)
                   ELSE r.target]

\* last part: the block is mounted at the editor (the state follows the editor's
\* post), or at the container (with a hint in the status line), or removed
mount(a, r) ==
    IF r.editor # 0
    THEN loadAuthorsOnce([ensureCommentAssistStateForEditor([a EXCEPT !.target = r.target],
                                                            r.editor)
                            EXCEPT !.mounted = TRUE])
    ELSE IF isConnected(a.dom, r.target.article)
    THEN loadAuthorsOnce([a EXCEPT !.target = r.target,
                                   !.state = setCommentAssistStatus(@, ClickIntoFieldText, ""),
                                   !.mounted = TRUE])
    ELSE [a EXCEPT !.target = r.target, !.mounted = FALSE]

\* refreshCommentAssist on the feed; pickEditor and pickBox are what the searches
\* of the whole document find
refreshCommentAssist(a, pickEditor, pickBox) ==
    CHOOSE result \in
        {mount(a, r7) : r7 \in
            {anchor(a, r5, pickBox) : r5 \in
                {retarget(a, t3, pickEditor) : t3 \in {healTarget(a.dom, a.target)}}}} : TRUE

\* ------------------------------------------------------------- actions
others == <<scrapeVars, calls, page, calc, panel, people, popup>>

\* the author key localStorage holds from an earlier visit
StoredKey == Bob.key

AssistInit ==
    /\ now = 0
    /\ topPostsCache = EmptyMap
    /\ topPostsInflight = EmptyMap
    /\ topPostsJobs = EmptyMap
    /\ runs = EmptyMap
    /\ tabs = EmptyMap
    /\ requests = EmptyMap
    /\ issued = 0
    /\ lastTurn = Quiet
    /\ calls = EmptyMap
    /\ page = NoPage
    /\ calc = NoCalc
    /\ assist = [NoAssist EXCEPT !.stored = StoredKey, !.state.selectedAuthorKey = StoredKey]
    /\ panel = NoPanel
    /\ people = NoPeople
    /\ popup = NoPopup

Picks == DocumentPicks(assist.dom)

\* the user clicks the block's generate button
Generate(pick) ==
    /\ assist.mounted
    /\ pick \in Picks
    /\ assist' = generateCommentVariants(Stepped(assist), pick)
    /\ assist'.commentAssistRequestId <= MaxAssistRequests
    /\ UNCHANGED others

\* the response to MYVOICE_GET_SETUP_AUTHORS arrives; a generation that waits for
\* it goes on
AuthorsSettled(l, outcome, pick) ==
    /\ l \in assist.loads
    /\ outcome \in AuthorsOutcomes
    /\ pick \in Picks
    /\ LET a0 == Stepped([assist EXCEPT !.loads = @ \ {l}])
           loaded == authorsSettled(a0, l, outcome)
       IN assist' = IF l.run = 0 THEN loaded
                    ELSE continueRun(loaded, l.run, loaded.state.authors, pick)
    /\ assist'.commentAssistRequestId <= MaxAssistRequests
    /\ UNCHANGED others

\* the response to MYVOICE_GENERATE_COMMENT_VARIANTS arrives, or the send is rejected
GenerationSettled(g, outcome, pick) ==
    /\ g \in assist.gens
    /\ outcome \in GenerationOutcomes
    /\ pick \in Picks
    /\ assist' = responseSettled(Stepped([assist EXCEPT !.gens = @ \ {g}]),
                                 g, outcome, pick)
    /\ UNCHANGED others

\* the user clicks the button of a variant
ApplyVariant(key, pick) ==
    /\ assist.mounted
    /\ key \in getAvailableCommentVariants(assist.state.variants)
    /\ pick \in Picks
    /\ assist' = applyCommentVariant(Stepped(assist), key, pick)
    /\ UNCHANGED others

\* a refresh timer fires
Refresh(pickEditor, pickBox) ==
    /\ pickEditor \in Picks
    /\ pickBox \in Picks
    /\ assist' = refreshCommentAssist(Stepped(assist), pickEditor, pickBox)
    /\ assist'.commentAssistRequestId <= MaxAssistRequests
    /\ UNCHANGED others

\* the user clicks the Comment button of the post in container n
ClickComment(n) ==
    /\ isConnected(assist.dom, n)
    /\ assist' = [Stepped(assist) EXCEPT
                    !.target = targetFromCommentButton(assist.dom, n, assist.clock)]
    /\ UNCHANGED others

\* the user puts the cursor into the comment editor of container n
FocusEditor(n) ==
    /\ hasBox(assist.dom, n)
    /\ assist' = [Stepped(assist) EXCEPT
                    !.target = setCommentAssistTargetFromNode(assist.dom, n, assist.clock)]
    /\ UNCHANGED others

\* watchLinkedInNavigation: the location has changed
Navigate ==
    /\ assist.commentAssistRequestId < MaxAssistRequests
    /\ assist' = [resetCommentAssistState(Stepped(assist), "")
                    EXCEPT !.target = NoTarget]
    /\ UNCHANGED others

\* the host page opens the comment box of container n
BoxOpens(n) ==
    /\ isConnected(assist.dom, n) /\ ~assist.dom[n].box
    /\ assist' = [Stepped(assist) EXCEPT !.dom[n].box = TRUE]
    /\ UNCHANGED others

\* the host page removes container n from the document
Detach(n) ==
    /\ isConnected(assist.dom, n)
    /\ assist' = [Stepped(assist) EXCEPT
                    !.dom[n] = [@ EXCEPT !.connected = FALSE, !.box = FALSE]]
    /\ UNCHANGED others

\* the host page renders the post of container n again: n is removed and an
\* equivalent new container takes its place
Rerender(n) ==
    /\ isConnected(assist.dom, n)
    /\ Len(assist.dom) < MaxNodes
    /\ assist' = [Stepped(assist) EXCEPT
                    !.dom = Append([@ EXCEPT ![n] = [@ EXCEPT !.connected = FALSE,
                                                              !.box = FALSE]],
                                   assist.dom[n])]
    /\ UNCHANGED others

\* the status ticker's interval fires
TickerFires ==
    /\ assist.ticker # 0
    /\ assist' = IF assist.ticker # assist.commentAssistRequestId \/ ~assist.state.generating
                 THEN [Stepped(assist) EXCEPT !.ticker = 0]
                 ELSE [Stepped(assist) EXCEPT
                         !.state = setCommentAssistStatus(@, ProgressText, "")]
    /\ UNCHANGED others

\* time passes
ClockTicks ==
    /\ assist.clock < MaxClock * ClockStepMs
    /\ assist' = [Stepped(assist) EXCEPT !.clock = @ + ClockStepMs]
    /\ UNCHANGED others

AssistNext ==
    \/ \E pick \in Picks : Generate(pick)
    \/ \E l \in assist.loads, outcome \in AuthorsOutcomes, pick \in Picks :
          AuthorsSettled(l, outcome, pick)
    \/ \E g \in assist.gens, outcome \in GenerationOutcomes, pick \in Picks :
          GenerationSettled(g, outcome, pick)
    \/ \E key \in {"short", "medium", "long"}, pick \in Picks : ApplyVariant(key, pick)
    \/ \E pickEditor \in Picks, pickBox \in Picks : Refresh(pickEditor, pickBox)
    \/ \E n \in DOMAIN assist.dom : ClickComment(n)
    \/ \E n \in DOMAIN assist.dom : FocusEditor(n)
    \/ Navigate
    \/ \E n \in DOMAIN assist.dom : BoxOpens(n)
    \/ \E n \in DOMAIN assist.dom : Detach(n)
    \/ \E n \in DOMAIN assist.dom : Rerender(n)
    \/ TickerFires
    \/ ClockTicks

AssistSpec == AssistInit /\ [][AssistNext]_vars

\* =====================================================================
\* Properties of the comment assist
\* =====================================================================

\* C21: while a generation is in progress (generating is true) a call of
\* generateCommentVariants does nothing: no message is sent (no author load and no
\* generation request starts), the request id stays as it is and commentAssistState
\* is left unchanged.
GenerateIgnoredWhileGenerating ==
    [][\A pick \in Picks :
          (assist.state.generating /\ Generate(pick))
             => /\ assist'.state = assist.state
                /\ assist'.commentAssistRequestId = assist.commentAssistRequestId
                /\ assist'.gens = assist.gens
                /\ assist'.loads = assist.loads
                /\ assist'.lastSent = assist.lastSent
                /\ assist'.ticker = assist.ticker]_vars

\* C21 witness: the generate button has just been clicked while a generation was
\* waiting for its response
ClickedWhileWaiting ==
    /\ assist.step.note = "ignored"
    /\ assist.state.generating
    /\ \E g \in assist.gens : g.id = assist.commentAssistRequestId

\* C22: once resetCommentAssistState has run while a generation request was
\* outstanding, the response (or error) that arrives later for that request changes
\* nothing of commentAssistState (variants, activeVariant, status text and kind,
\* generating included), writes into no editor and moves no target.
LateResponseDiscarded ==
    [][\A g \in assist.gens, outcome \in GenerationOutcomes, pick \in Picks :
          (g.cut /\ GenerationSettled(g, outcome, pick))
             => /\ assist'.state = assist.state
                /\ assist'.step.editor = 0
                /\ assist'.target = assist.target
                /\ assist'.commentAssistRequestId = assist.commentAssistRequestId]_vars

\* C22 witness: the response of a generation that a reset had cut off has just
\* arrived while a newer generation is waiting for its own response
LateResponseBesideNewGeneration ==
    /\ assist.step.note = "late"
    /\ assist.state.generating
    /\ \E g \in assist.gens : g.id = assist.commentAssistRequestId /\ ~g.cut

\* C23: whenever the post key resolved from the editor differs from the state's
\* postKey, ensureCommentAssistStateForEditor resets commentAssistState: postKey is
\* the new key, generating is false, variants are null, activeVariant and the
\* status text are empty, and the authors, their load flags and error and
\* selectedAuthorKey are the ones from before the reset.
ResetKeepsAuthors ==
    \A n \in DOMAIN assist.dom :
        LET key == commentAssistPostKeyFromEditor(assist.dom, n)
            after == ensureCommentAssistStateForEditor(assist, n)
        IN (hasBox(assist.dom, n) /\ key # "" /\ key # assist.state.postKey)
              => /\ after.state = [assist.state EXCEPT !.postKey = key,
                                                       !.generating = FALSE,
                                                       !.variants = Null,
                                                       !.activeVariant = "",
                                                       !.statusText = "",
                                                       !.statusKind = ""]
                 /\ after.commentAssistRequestId = assist.commentAssistRequestId + 1

\* C23 witness: a refresh has just reset the state for another post while a
\* generation was waiting, with the authors loaded and one of them selected
ResetWithAuthorsLoaded ==
    /\ assist.step.note = "reset"
    /\ assist.state.postKey # ""
    /\ assist.state.authors # <<>>
    /\ assist.state.authorsLoaded
    /\ assist.state.selectedAuthorKey # ""
    /\ ~assist.state.generating
    /\ \E g \in assist.gens : g.cut

\* a container the host page has rendered in the place of an earlier one
IsReplacement(n) == n > Len(NoAssist.dom)

\* an outcome that carries at least one variant with a text
HasVariants(outcome) ==
    /\ ~outcome.thrown
    /\ outcome.response.ok
    /\ getAvailableCommentVariants(outcome.response.variants) # {}

\* C24: while a generation is in flight, the container of the resolved post is
\* detached and an equivalent container with the same activity id is attached. The
\* next refresh makes the new container the target and does not reset
\* commentAssistState: generating stays true, the request id and the post key are
\* unchanged. The response that then arrives for that generation is applied: the
\* variants are set and the default one is written into the new container's editor.
ReattachKeepsGeneration ==
    [][/\ \A pickEditor \in Picks, pickBox \in Picks :
            (/\ assist.state.generating
             /\ assist.target.article # 0
             /\ ~isConnected(assist.dom, assist.target.article)
             /\ assist.state.postKey = "urn:li:activity:" \o assist.target.activityId
             /\ \E m \in DOMAIN assist.dom :
                   isConnected(assist.dom, m) /\ assist.dom[m].post = assist.target.activityId
             /\ Refresh(pickEditor, pickBox))
               => /\ isConnected(assist.dom, assist'.target.article)
                  /\ IsReplacement(assist'.target.article)
                  /\ assist.dom[assist'.target.article].post = assist.target.activityId
                  /\ assist'.target.activityId = assist.target.activityId
                  /\ assist'.state.generating
                  /\ assist'.state.postKey = assist.state.postKey
                  /\ assist'.state.variants = assist.state.variants
                  /\ assist'.commentAssistRequestId = assist.commentAssistRequestId
                  /\ assist'.gens = assist.gens
       /\ \A g \in assist.gens, outcome \in GenerationOutcomes, pick \in Picks :
            (/\ g.id = assist.commentAssistRequestId
             /\ HasVariants(outcome)
             /\ IsReplacement(assist.target.article)
             /\ hasBox(assist.dom, assist.target.article)
             /\ GenerationSettled(g, outcome, pick))
               => /\ assist'.state.variants = Some(StrippedVariants[Val(outcome.response.variants)])
                  /\ ~assist'.state.generating
                  /\ assist'.step.note = "inserted"
                  /\ assist'.step.editor = assist.target.article
                  /\ assist'.state.activeVariant \in getAvailableCommentVariants(assist'.state.variants)
                  /\ assist'.step.text = Val(assist'.state.variants)[assist'.state.activeVariant]
      ]_vars

\* C24 witness: the response of a generation that was started at the first
\* container of a post has been written into the editor of the container that
\* replaced it, and the request id is the one of that generation
AppliedAfterReattach ==
    /\ assist.step.note = "inserted"
    /\ IsReplacement(assist.step.editor)
    /\ assist.target.article = assist.step.editor
    /\ assist.lastSent = assist.commentAssistRequestId
    /\ assist.state.variants # Null
    /\ \E n \in DOMAIN assist.dom :
          /\ ~IsReplacement(n) /\ ~isConnected(assist.dom, n)
          /\ assist.dom[n].post = assist.dom[assist.step.editor].post

\* C25: for RECENTLY_TARGETED_MS after a target post has been resolved, a refresh
\* (the resolver's reaction to changes of the document, the detachment of the
\* target container included) never makes a container of a different post the
\* target; within that time only a click, a focus or a navigation changes the post.
RefreshKeepsRecentTarget ==
    [][\A pickEditor \in Picks, pickBox \in Picks :
          (/\ TargetPost(assist) # ""
           /\ assist.clock - assist.target.updatedAt < RECENTLY_TARGETED_MS
           /\ Refresh(pickEditor, pickBox))
             => TargetPost(assist') = TargetPost(assist)]_vars

\* the default of the claim: medium, then short, then long, among the texts that
\* are not empty
PreferredKey(variants) ==
    IF variants.medium # "" THEN "medium"
    ELSE IF variants.short # "" THEN "short"
    ELSE "long"

\* C26: when the response of the current generation carries variants, the default
\* one (medium, then short, then long, among those with a text) becomes
\* activeVariant and its text is written at once into the editor of the post the
\* generation was made for; a response whose three variants are all empty is a
\* failure and leaves the variants as they were.
DefaultVariantInserted ==
    [][\A g \in assist.gens, outcome \in GenerationOutcomes, pick \in Picks :
          (/\ g.id = assist.commentAssistRequestId
           /\ ~outcome.thrown
           /\ GenerationSettled(g, outcome, pick))
             => IF HasVariants(outcome)
                THEN LET variants == StrippedVariants[Val(outcome.response.variants)]
                         key == PreferredKey(variants)
                     IN /\ assist'.state.variants = Some(variants)
                        /\ assist'.state.activeVariant = key
                        /\ assist'.step.note = "inserted"
                        /\ assist'.step.text = variants[key]
                        /\ commentAssistPostKeyFromEditor(assist.dom, assist'.step.editor)
                              = assist.state.postKey
                ELSE /\ assist'.state.variants = assist.state.variants
                     /\ assist'.state.statusKind = "error"
                     /\ assist'.step.editor = 0]_vars

\* C27: a generation that fails, for whatever reason (no author, no editor, a
\* failed or empty response, a rejected send), leaves variants and activeVariant
\* as they were, those of an earlier successful generation included; it sets the
\* error status, generating is false again and nothing is written into an editor.
FailureKeepsVariants ==
    [][assist'.step.note = "failed"
          => /\ assist'.state.variants = assist.state.variants
             /\ assist'.state.activeVariant = assist.state.activeVariant
             /\ assist'.state.postKey = assist.state.postKey
             /\ assist'.state.statusKind = "error"
             /\ ~assist'.state.generating
             /\ assist'.step.editor = 0]_vars

\* C27 witness: a generation has just failed with a response that was a failure
\* while the variants of an earlier generation, one of them active, are in the state
FailedWithEarlierVariants ==
    /\ assist.step.note = "failed"
    /\ assist.lastSent = assist.commentAssistRequestId
    /\ assist.state.variants # Null
    /\ assist.state.activeVariant # ""
    /\ assist.state.statusKind = "error"

\* the message of the category an HTTP failure belongs to
CategoryText(status) ==
    CASE status = 0 -> NetworkText
      [] status = 401 -> LoginText
      [] status = 403 -> ForbiddenText
      [] status = 404 -> NotFoundText

\* C28: a generation request that fails because the backend could not be reached
\* or answered 401, 403 or 404 ends with the status message of that category
\* (for 401 the login message), never with the raw message of the failure.
FailureGetsCategoryMessage ==
    [][\A g \in assist.gens, f \in HttpFailures, pick \in Picks :
          (/\ g.id = assist.commentAssistRequestId
           /\ GenerationSettled(g, [thrown |-> FALSE,
                                    response |-> generationFailed(backendError(f))], pick))
             => /\ assist'.state.statusText = CategoryText(f.status)
                /\ assist'.state.statusKind = "error"]_vars

SentIds(a) == {g.id : g \in a.gens}

\* a step in which a generation request is sent: it is the only one of its run,
\* the author list is not empty and the author sent is the selected one
SendsForSelectedAuthor ==
    (SentIds(assist') \ SentIds(assist) # {})
       => /\ SentIds(assist') \ SentIds(assist) = {assist'.commentAssistRequestId}
          /\ assist'.lastSent = assist'.commentAssistRequestId
          /\ assist.lastSent < assist'.commentAssistRequestId
          /\ assist'.state.authors # <<>>
          /\ \E g \in assist'.gens :
                /\ g.id = assist'.commentAssistRequestId
                /\ g.author = assist'.state.selectedAuthorKey
                /\ \E i \in DOMAIN assist'.state.authors : assist'.state.authors[i].key = g.author

\* a step in which a run fails before sending, with no author in the list
FailsWithoutAuthor ==
    /\ assist'.step.note = "failed"
    /\ assist'.state.authors = <<>>
    /\ assist'.lastSent # assist'.commentAssistRequestId

\* C30 as stated: a generation request is sent only for a non-empty author list and
\* the selected author, once per run; a run that finds no author sends nothing and
\* ends with the no-author error status.
NoAuthorEndsWithNoAuthorStatus ==
    [][/\ SendsForSelectedAuthor
       /\ FailsWithoutAuthor
             => /\ SentIds(assist') \subseteq SentIds(assist)
                /\ ~assist'.state.generating
                /\ assist'.state.statusKind = "error"
                /\ assist'.state.statusText = NoAuthorText]_vars

\* C30, amended: a generation request is sent only for a non-empty author list and
\* the selected author, once per run; a run that finds no author sends nothing and
\* ends with an error status: the no-author message, unless the load of the
\* authors had failed, in which case the status is the one of the load's error.
NoAuthorEndsWithErrorStatus ==
    [][/\ SendsForSelectedAuthor
       /\ FailsWithoutAuthor
             => /\ SentIds(assist') \subseteq SentIds(assist)
                /\ ~assist'.state.generating
                /\ assist'.state.statusKind = "error"
                /\ assist'.state.statusText =
                      IF assist'.state.authorsError = "" THEN NoAuthorText
                      ELSE ErrorTexts[assist'.state.authorsError]]_vars

\* C30 witness: a run has just ended without sending because the load of the
\* authors had failed, and the status line tells of the backend, not of authors
RunEndedAfterFailedLoad ==
    /\ assist.step.note = "failed"
    /\ assist.state.authors = <<>>
    /\ assist.state.authorsLoaded
    /\ assist.state.authorsError # ""
    /\ assist.lastSent # assist.commentAssistRequestId
    /\ assist.state.statusText = NetworkText
    /\ ~assist.state.generating

\* C35: while a generation is current and waits for its response (generating is
\* true, its request is out and was not cut off by a reset), its status ticker
\* runs; the end of an older generation with a stale request id does not stop it.
CurrentTickerKeepsRunning ==
    (/\ assist.state.generating
     /\ \E g \in assist.gens : g.id = assist.commentAssistRequestId /\ ~g.cut)
       => assist.ticker = assist.commentAssistRequestId

\* C36: a generation started while a load of the author list is in flight uses the
\* outcome of that load: it does not end with the no-author error while the load,
\* which can still return authors, is out.
GenerateAwaitsLoadInFlight ==
    [][\A pick \in Picks :
          (/\ assist.state.authorsLoading
           /\ \E l \in assist.loads : l.id = assist.commentAssistAuthorsRequestId
           /\ ~assist.state.generating
           /\ Generate(pick))
             => ~(/\ assist'.step.note = "failed"
                  /\ assist'.state.statusText = NoAuthorText
                  /\ ~assist'.state.generating)]_vars

\* C32: only a job that ends with data and on which no cancel was received writes
\* the top-posts cache: when a job settles after a failure, or after a cancel that
\* arrived at any moment while it was registered in topPostsJobs (the close of its
\* tab after the extraction included), the cache entry of its profile key is the
\* one from before the job started.
CancelledJobLeavesCache ==
    (/\ lastTurn.kind = "settled"
     /\ \/ Val(lastTurn.snapshot).job.cancelled
        \/ Val(lastTurn.snapshot).pending.kind # "data")
       => LET run == Val(lastTurn.snapshot)
          IN /\ (run.key \in DOMAIN topPostsCache) = ~IsNull(run.cached)
             /\ ~IsNull(run.cached) => topPostsCache[run.key] = Val(run.cached)

\* ------------------------------------------------------ the profile panel
MaxPanelRequests == 3

UrlBob == [kind |-> "url", host |-> <<"www", "linkedin", "com">>, path |-> <<"in", "bob", "">>]

\* window.location.href of the tab the content script runs in
PanelUrls == {UrlAlice, UrlBob, UrlFeed}

\* navigationKeyForUrl: the URL without its trailing slashes
navigationKeyForUrl(url) ==
    IF url.kind # "url" THEN url ELSE [url EXCEPT !.path = SelectSeq(@, NonEmptyPart)]

\* what the await of sendRuntimeMessageSafe(MYVOICE_GET_PROFILE_TOP_POSTS) can bring
PanelOutcomes ==
    {[thrown |-> FALSE, ok |-> TRUE, error |-> ""],
     [thrown |-> FALSE, ok |-> FALSE, error |-> LoadTimeoutMsg],
     [thrown |-> TRUE, ok |-> FALSE, error |-> "Extension context invalidated."]}

\* isExtensionContextInvalidatedMessage
isExtensionContextInvalidatedMessage(message) == includes(toLowerCase(message), "context invalidated")

\* renderProfilePanelResult, ...Error, ...ExtensionReloadHint, ...Loading: each
\* takes getOrCreatePanel() and replaces the body
renderProfilePanel(pn, kind, req) ==
    [pn EXCEPT !.panelNode = IF @ = "absent" THEN "shown" ELSE @,
               !.body = [kind |-> kind, id |-> req.id, key |-> req.key]]

\* mutant: collapsing does not invalidate the requests in flight
setPanelCollapsedKeepsRequestId(pn, value) ==
    [pn EXCEPT !.profilePanelCollapsed = value,
               !.panelNode = IF @ = "absent" THEN @ ELSE IF value THEN "hidden" ELSE "shown",
               !.launcherShown = value]

\* setPanelCollapsed
setPanelCollapsed(pn, value) ==
    LET profile == parseLinkedInProfile(pn.href)
    IN [pn EXCEPT !.profilePanelCollapsed = value,
                  !.profilePanelRequestId = IF value THEN @ + 1 ELSE @,
                  !.cancels = IF value /\ ~IsNull(profile)
                              THEN Append(@, Val(profile).profileUrl) ELSE @,
                  !.panelNode = IF @ = "absent" THEN @ ELSE IF value THEN "hidden" ELSE "shown",
                  !.launcherShown = value]

\* mutant: a collapsed panel still asks for the posts
refreshProfileTopPostsPanelWhenCollapsed(pn) ==
    LET profile == parseLinkedInProfile(pn.href)
        requestId == pn.profilePanelRequestId + 1
    IN IF IsNull(profile)
       THEN [pn EXCEPT !.panelNode = "absent", !.launcherShown = FALSE, !.body = NothingRendered]
       ELSE [renderProfilePanel([pn EXCEPT !.launcherShown = FALSE, !.panelNode = "shown"],
                                "loading", [id |-> requestId, key |-> Val(profile).profileKey])
               EXCEPT !.profilePanelRequestId = requestId,
                      !.pending = @ \cup {[id |-> requestId, key |-> Val(profile).profileKey]},
                      !.note = "asked"]

\* refreshProfileTopPostsPanel up to its await
refreshProfileTopPostsPanel(pn) ==
    LET profile == parseLinkedInProfile(pn.href)
        requestId == pn.profilePanelRequestId + 1
    IN IF IsNull(profile)
       THEN [pn EXCEPT !.panelNode = "absent", !.launcherShown = FALSE, !.body = NothingRendered]
       ELSE IF pn.profilePanelCollapsed
       THEN [pn EXCEPT !.panelNode = IF @ = "absent" THEN @ ELSE "hidden",
                       !.launcherShown = TRUE]
       ELSE [renderProfilePanel([pn EXCEPT !.launcherShown = FALSE, !.panelNode = "shown"],
                                "loading", [id |-> requestId, key |-> Val(profile).profileKey])
               EXCEPT !.profilePanelRequestId = requestId,
                      !.pending = @ \cup {[id |-> requestId, key |-> Val(profile).profileKey]},
                      !.note = "asked"]

\* mutant: the continuation renders whatever request it belongs to
panelContinuationUnchecked(pn, req, outcome) ==
    IF outcome.thrown \/ ~outcome.ok
    THEN renderProfilePanel([pn EXCEPT !.note = "rendered"],
                            IF isExtensionContextInvalidatedMessage(outcome.error)
                            THEN "hint" ELSE "error", req)
    ELSE renderProfilePanel([pn EXCEPT !.note = "rendered"], "result", req)

\* refreshProfileTopPostsPanel after its await, for the request req
panelContinuation(pn, req, outcome) ==
    IF req.id # pn.profilePanelRequestId THEN [pn EXCEPT !.note = "stale"]
    ELSE IF outcome.thrown \/ ~outcome.ok
    THEN renderProfilePanel([pn EXCEPT !.note = "rendered"],
                            IF isExtensionContextInvalidatedMessage(outcome.error)
                            THEN "hint" ELSE "error", req)
    ELSE renderProfilePanel([pn EXCEPT !.note = "rendered"], "result", req)

panelOthers == <<scrapeVars, calls, page, calc, people, popup>>

PanelInit ==
    /\ now = 0
    /\ topPostsCache = EmptyMap
    /\ topPostsInflight = EmptyMap
    /\ topPostsJobs = EmptyMap
    /\ runs = EmptyMap
    /\ tabs = EmptyMap
    /\ requests = EmptyMap
    /\ issued = 0
    /\ lastTurn = Quiet
    /\ calls = EmptyMap
    /\ page = NoPage
    /\ calc = NoCalc
    /\ assist = NoAssist
    /\ \E collapsed \in BOOLEAN : panel = [NoPanel EXCEPT !.profilePanelCollapsed = collapsed]
    /\ people = NoPeople
    /\ popup = NoPopup

\* the page goes to another URL
PanelHrefChanges(url) ==
    /\ url \in PanelUrls /\ url # panel.href
    /\ panel' = [panel EXCEPT !.href = url, !.note = ""]
    /\ UNCHANGED <<assist, panelOthers>>

\* onLocationMaybeChanged finds a new navigation key
PanelLocationChanged ==
    /\ navigationKeyForUrl(panel.href) # panel.profilePanelLastUrl
    /\ assist.commentAssistRequestId < MaxAssistRequests
    /\ panel' = [panel EXCEPT !.profilePanelLastUrl = navigationKeyForUrl(panel.href),
                              !.profilePanelRefreshTimer = TRUE, !.note = ""]
    /\ assist' = [resetCommentAssistState(Stepped(assist), "") EXCEPT !.target = NoTarget]
    /\ UNCHANGED panelOthers

\* the timer of scheduleProfilePanelRefresh fires
PanelRefresh ==
    /\ panel.profilePanelRefreshTimer
    /\ panel' = refreshProfileTopPostsPanel([panel EXCEPT !.profilePanelRefreshTimer = FALSE,
                                                          !.note = ""])
    /\ panel'.profilePanelRequestId <= MaxPanelRequests
    /\ UNCHANGED <<assist, panelOthers>>

\* the user clicks the panel's close button
PanelCollapse ==
    /\ panel.panelNode = "shown"
    /\ panel.profilePanelRequestId < MaxPanelRequests
    /\ panel' = setPanelCollapsed([panel EXCEPT !.note = "collapsed"], TRUE)
    /\ UNCHANGED <<assist, panelOthers>>

\* the user clicks the launcher
PanelExpand ==
    /\ panel.launcherShown
    /\ panel' = [setPanelCollapsed([panel EXCEPT !.note = ""], FALSE)
                   EXCEPT !.profilePanelRefreshTimer = TRUE]
    /\ UNCHANGED <<assist, panelOthers>>

\* the answer to a MYVOICE_GET_PROFILE_TOP_POSTS arrives, or its send is rejected
PanelSettled(req, outcome) ==
    /\ req \in panel.pending
    /\ outcome \in PanelOutcomes
    /\ panel' = panelContinuation([panel EXCEPT !.pending = @ \ {req}, !.note = ""], req, outcome)
    /\ UNCHANGED <<assist, panelOthers>>

PanelNext ==
    \/ \E url \in PanelUrls : PanelHrefChanges(url)
    \/ PanelLocationChanged
    \/ PanelRefresh
    \/ PanelCollapse
    \/ PanelExpand
    \/ \E req \in panel.pending, outcome \in PanelOutcomes : PanelSettled(req, outcome)

PanelSpec == PanelInit /\ [][PanelNext]_vars

\* C34: the profile panel renders only the answer to its most recently issued
\* request: a response or error for a request id that is no longer
\* profilePanelRequestId changes nothing of what is shown; collapsing the panel
\* bumps the request id (which makes every request in flight stale) and sends one
\* cancel message for the profile of the page; while the panel stays collapsed no
\* request is issued and no answer is rendered.
PanelRendersCurrentOnly ==
    [][/\ \A req \in panel.pending, outcome \in PanelOutcomes :
            (req.id # panel.profilePanelRequestId /\ PanelSettled(req, outcome))
               => /\ panel'.body = panel.body
                  /\ panel'.panelNode = panel.panelNode
                  /\ panel'.launcherShown = panel.launcherShown
       /\ PanelCollapse
            => /\ panel'.profilePanelRequestId = panel.profilePanelRequestId + 1
               /\ panel'.pending = panel.pending
               /\ \A req \in panel'.pending : req.id < panel'.profilePanelRequestId
               /\ panel'.cancels = IF IsNull(parseLinkedInProfile(panel.href)) THEN panel.cancels
                                   ELSE Append(panel.cancels,
                                               Val(parseLinkedInProfile(panel.href)).profileUrl)
       /\ (panel.profilePanelCollapsed /\ panel'.profilePanelCollapsed)
            => /\ panel'.pending \subseteq panel.pending
               /\ panel'.body \in {panel.body, NothingRendered}
       /\ (panel'.body # panel.body /\ panel'.body.kind \in {"result", "error", "hint"})
            => /\ panel'.body.id = panel.profilePanelRequestId
               /\ ~panel.profilePanelCollapsed]_vars

\* C34 witness: the answer to the request made before the panel was collapsed has
\* arrived after the collapse, and the panel (hidden) still shows what it showed
StaleAnswerAfterCollapse ==
    /\ panel.note = "stale"
    /\ panel.profilePanelCollapsed
    /\ panel.panelNode = "hidden"
    /\ panel.body.kind = "loading"
    /\ panel.body.id < panel.profilePanelRequestId
    /\ Len(panel.cancels) = 1
    /\ panel.pending = {}

\* ------------------------------------------- the background's TTL caches
\* people.clock counts steps of Date.now(); a promise is named by the number of the
\* load that made it, and 0 stands for the null in-flight marker.  The data a load
\* fetched is named by the load: Some(id).
MaxSetupRequests == 3
MaxSetupClock == 2

PEOPLE_CACHE_TTL_MS == 30000
SETUP_AUTHORS_CACHE_TTL_MS == 30000

PeopleClockStepMs == SETUP_AUTHORS_CACHE_TTL_MS \div 2

PeopleNowMs(pp) == pp.clock * PeopleClockStepMs

\* getSetupAuthorsCached up to its await: the fresh cache, the shared promise, or a
\* new load that replaces the in-flight marker
getSetupAuthorsCached(pp, force) ==
    IF /\ ~force /\ ~IsNull(pp.setupAuthorsCacheData)
       /\ PeopleNowMs(pp) - pp.setupAuthorsCacheUpdatedAt < SETUP_AUTHORS_CACHE_TTL_MS
    THEN [pp EXCEPT !.note = "cached"]
    ELSE IF ~force /\ pp.setupAuthorsCacheInflight # 0
    THEN [pp EXCEPT !.note = "shared"]
    ELSE [pp EXCEPT !.setupStarted = @ + 1,
                    !.setupAuthorsCacheInflight = pp.setupStarted + 1,
                    !.setupLoads = @ \cup {pp.setupStarted + 1},
                    !.note = "started"]

\* the draft request of load id settles: the inner function stores what it fetched,
\* then the finally of the caller that made the promise clears the marker
setupLoadSettled(pp, id, ok) ==
    LET stored == IF ok THEN [pp EXCEPT !.setupAuthorsCacheData = Some(id),
                                         !.setupAuthorsCacheUpdatedAt = PeopleNowMs(pp),
                                         !.setupOk = @ \cup {id}]
                  ELSE pp
    IN [stored EXCEPT !.setupLoads = @ \ {id},
                      !.setupAuthorsCacheInflight = 0,
                      !.note = "settled"]

peopleOthers == <<scrapeVars, calls, page, calc, assist, panel, popup>>

SetupInit ==
    /\ Init
    /\ people = NoPeople

\* a MYVOICE_GET_SETUP_AUTHORS message arrives
GetSetupAuthors(force) ==
    /\ force \in BOOLEAN
    /\ getSetupAuthorsCached(people, force).setupStarted <= MaxSetupRequests
    /\ people' = getSetupAuthorsCached(people, force)
    /\ UNCHANGED peopleOthers

\* backendRequest("/setup/draft") answers or fails
SetupLoadSettled(id, ok) ==
    /\ id \in people.setupLoads
    /\ people' = setupLoadSettled(people, id, ok)
    /\ UNCHANGED peopleOthers

SetupClockTicks ==
    /\ people.clock < MaxSetupClock
    /\ people' = [people EXCEPT !.clock = @ + 1, !.note = ""]
    /\ UNCHANGED peopleOthers

SetupNext ==
    \/ \E force \in BOOLEAN : GetSetupAuthors(force)
    \/ \E id \in people.setupLoads, ok \in BOOLEAN : SetupLoadSettled(id, ok)
    \/ SetupClockTicks

SetupSpec == SetupInit /\ [][SetupNext]_vars

\* C38: for the setup-authors cache, the in-flight marker is non-null exactly
\* while some load is outstanding, and once every load has settled and the most
\* recently started one succeeded, the cache holds the data of that load.
InflightMarksOutstanding ==
    /\ (people.setupAuthorsCacheInflight # 0) <=> (people.setupLoads # {})
    /\ (people.setupLoads = {} /\ people.setupStarted \in people.setupOk)
          => people.setupAuthorsCacheData = Some(people.setupStarted)

\* ------------------------------------------- people: check and add
MaxPeopleRequests == 3
MaxPeopleClock == 2

\* cleanText of the background script: String(value || "").trim()
backgroundCleanText(text) ==
    LET first == IF \E i \in 1..Len(text) : ~IsSpace(text[i])
                 THEN CHOOSE i \in 1..Len(text) :
                          ~IsSpace(text[i]) /\ \A j \in 1..(i - 1) : IsSpace(text[j])
                 ELSE Len(text) + 1
        last == IF first > Len(text) THEN 0
                ELSE CHOOSE i \in 1..Len(text) :
                         ~IsSpace(text[i]) /\ \A j \in (i + 1)..Len(text) : IsSpace(text[j])
    IN SubSeq(text, first, last)

\* the characters /[^a-z0-9а-яё\s-]/gi leaves alone
IsNameChar(c) ==
    \/ IsDigit(c) \/ IsSpace(c) \/ c = "-"
    \/ \E i \in 1..26 : c \in {SubSeq(LowerChars, i, i), SubSeq(UpperChars, i, i)}
    \/ (Len(c) > 4 /\ SubSeq(c, 1, 4) = "cyr:")

normalizePersonName(value) ==
    LET lowered == [i \in 1..Len(backgroundCleanText(value)) |->
                       LowerChar(backgroundCleanText(value)[i])]
        spaced == [i \in 1..Len(lowered) |-> IF IsNameChar(lowered[i]) THEN lowered[i] ELSE " "]
    IN cleanText(spaced)

EntityScopes == {"in", "company", "school"}

parseLinkedInEntity(url) ==
    IF url.kind # "url" THEN Null
    ELSE IF ~isLinkedInHost(url.host) THEN Null
    ELSE LET parts == pathParts(url)
         IN IF Len(parts) < 2 THEN Null
            ELSE IF parts[1] \notin EntityScopes THEN Null
            ELSE Some([scope |-> parts[1], slug |-> parts[2],
                       key |-> parts[1] \o "/" \o parts[2],
                       url |-> [kind |-> "url", host |-> url.host,
                                path |-> <<parts[1], parts[2], "">>]])

\* the payload's first_name and last_name take no part in the lookup or in the
\* creation and are left out
buildPersonPayload(rawPerson) ==
    [full_name |-> backgroundCleanText(rawPerson.full_name),
     linkedin_url |-> IF IsNull(parseLinkedInEntity(rawPerson.linkedin_url))
                      THEN rawPerson.linkedin_url
                      ELSE Val(parseLinkedInEntity(rawPerson.linkedin_url)).url]

SameEntity(a, b) ==
    /\ ~IsNull(parseLinkedInEntity(a.linkedin_url))
    /\ ~IsNull(parseLinkedInEntity(b.linkedin_url))
    /\ Val(parseLinkedInEntity(a.linkedin_url)).key = Val(parseLinkedInEntity(b.linkedin_url)).key

SameName(a, b) ==
    /\ normalizePersonName(a.full_name) # <<>>
    /\ normalizePersonName(a.full_name) = normalizePersonName(b.full_name)

\* mutant: people are matched by their LinkedIn entity only
findExistingPersonByEntity(list, payload) ==
    IF \E i \in 1..Len(list) : SameEntity(list[i], payload)
    THEN Some(list[CHOOSE i \in 1..Len(list) :
                      SameEntity(list[i], payload)
                      /\ \A j \in 1..(i - 1) : ~SameEntity(list[j], payload)])
    ELSE Null

findExistingPersonByPayload(list, payload) ==
    IF \E i \in 1..Len(list) : SameEntity(list[i], payload)
    THEN Some(list[CHOOSE i \in 1..Len(list) :
                      SameEntity(list[i], payload)
                      /\ \A j \in 1..(i - 1) : ~SameEntity(list[j], payload)])
    ELSE IF \E i \in 1..Len(list) : SameName(payload, list[i])
    THEN Some(list[CHOOSE i \in 1..Len(list) :
                      SameName(payload, list[i])
                      /\ \A j \in 1..(i - 1) : ~SameName(payload, list[j])])
    ELSE Null

PersonInputs ==
    {[full_name |-> Chars("Alice Smith"), linkedin_url |-> UrlAlice],
     [full_name |-> Chars(" alice  smith."), linkedin_url |-> UrlEmpty],
     [full_name |-> Chars("A. Smith"), linkedin_url |-> UrlAliceUpper],
     [full_name |-> Chars("Bob"), linkedin_url |-> UrlBob],
     [full_name |-> <<>>, linkedin_url |-> UrlEmpty]}

SamePerson(a, b) == SameEntity(a, b) \/ SameName(a, b)

answered(pp, id, kind, result) ==
    [pp EXCEPT !.answers = @ \cup {[id |-> id, kind |-> kind, result |-> result]}]

\* what follows `await getPeopleCached()` in checkPersonInSystem and in
\* addPersonToSystem, up to the answer or to the call of createPerson; rivals counts
\* the creations of the same person that are in flight or have succeeded
afterPeople(pp, w, list) ==
    LET existing == findExistingPersonByPayload(list, w.payload)
    IN IF w.kind = "check"
       THEN answered(pp, w.id, "check", IF IsNull(existing) THEN "absent" ELSE "exists")
       ELSE IF ~IsNull(existing) THEN answered(pp, w.id, "add", "present")
       ELSE [pp EXCEPT !.creates = @ \cup
                {[id |-> w.id, payload |-> w.payload, state |-> "flight",
                  rivals |-> Cardinality({c \in pp.creates :
                                             /\ c.state \in {"flight", "ok"}
                                             /\ SamePerson(c.payload, w.payload)})]}]

\* the callers awaiting one promise go on in the order they called
RECURSIVE resume(_, _, _)
resume(pp, ws, outcome) ==
    IF ws = {} THEN pp
    ELSE LET w == CHOOSE x \in ws : \A y \in ws : x.id <= y.id
         IN resume(IF outcome.ok THEN afterPeople(pp, w, outcome.list)
                   ELSE answered(pp, w.id, w.kind, "error"),
                   ws \ {w}, outcome)

\* getPeopleCached for caller w, up to its await
getPeopleCached(pp, w) ==
    IF /\ ~IsNull(pp.peopleCacheData)
       /\ PeopleNowMs(pp) - pp.peopleCacheUpdatedAt < PEOPLE_CACHE_TTL_MS
    THEN afterPeople(pp, w, Val(pp.peopleCacheData))
    ELSE IF pp.peopleCacheInflight # 0
    THEN [pp EXCEPT !.waiting = @ \cup {[w EXCEPT !.load = pp.peopleCacheInflight]}]
    ELSE [pp EXCEPT !.peopleStarted = @ + 1,
                    !.peopleCacheInflight = pp.peopleStarted + 1,
                    !.peopleLoads = @ \cup {pp.peopleStarted + 1},
                    !.waiting = @ \cup {[w EXCEPT !.load = pp.peopleStarted + 1]}]

checkPersonInSystem(pp, id, rawPerson) ==
    LET payload == buildPersonPayload(rawPerson)
    IN IF payload.full_name = <<>> /\ payload.linkedin_url.kind = "empty"
       THEN answered(pp, id, "check", "absent")
       ELSE getPeopleCached(pp, [id |-> id, kind |-> "check", payload |-> payload, load |-> 0])

addPersonToSystem(pp, id, rawPerson) ==
    LET payload == buildPersonPayload(rawPerson)
    IN IF payload.full_name = <<>>
       THEN answered(pp, id, "add", "error")
       ELSE getPeopleCached(pp, [id |-> id, kind |-> "add", payload |-> payload, load |-> 0])

\* listPeople of load id settles: the cache is written, the marker cleared, and
\* the callers awaiting the promise go on
peopleLoadSettled(pp, id, ok) ==
    LET stored == IF ok THEN [pp EXCEPT !.peopleCacheData = Some(pp.backend),
                                         !.peopleCacheUpdatedAt = PeopleNowMs(pp)]
                  ELSE pp
        cleared == [stored EXCEPT !.peopleLoads = @ \ {id},
                                  !.peopleCacheInflight = 0,
                                  !.waiting = {w \in @ : w.load # id}]
    IN resume(cleared, {w \in pp.waiting : w.load = id}, [ok |-> ok, list |-> pp.backend])

\* createPerson of caller c settles
createSettled(pp, c, ok) ==
    IF ok
    THEN answered([pp EXCEPT !.creates = (@ \ {c}) \cup {[c EXCEPT !.state = "ok"]},
                             !.backend = Append(@, c.payload),
                             !.peopleCacheUpdatedAt = 0,
                             !.peopleCacheData = Null],
                  c.id, "add", "added")
    ELSE answered([pp EXCEPT !.creates = (@ \ {c}) \cup {[c EXCEPT !.state = "failed"]}],
                  c.id, "add", "error")

PeopleInit ==
    /\ Init
    /\ people = NoPeople

\* a MYVOICE_CHECK_PROFILE_PERSON message arrives
CheckPerson(rawPerson) ==
    /\ people.asked < MaxPeopleRequests
    /\ people' = [checkPersonInSystem(people, people.asked + 1, rawPerson)
                     EXCEPT !.asked = @ + 1, !.note = "check"]
    /\ UNCHANGED peopleOthers

\* a MYVOICE_ADD_PROFILE_PERSON message arrives
AddPerson(rawPerson) ==
    /\ people.asked < MaxPeopleRequests
    /\ people' = [addPersonToSystem(people, people.asked + 1, rawPerson)
                     EXCEPT !.asked = @ + 1, !.note = "add"]
    /\ UNCHANGED peopleOthers

PeopleLoadSettled(id, ok) ==
    /\ id \in people.peopleLoads
    /\ people' = [peopleLoadSettled(people, id, ok) EXCEPT !.note = "loaded"]
    /\ UNCHANGED peopleOthers

CreatePersonSettled(c, ok) ==
    /\ c \in people.creates
    /\ c.state = "flight"
    /\ people' = [createSettled(people, c, ok) EXCEPT !.note = "created"]
    /\ UNCHANGED peopleOthers

PeopleClockTicks ==
    /\ people.clock < MaxPeopleClock
    /\ people' = [people EXCEPT !.clock = @ + 1, !.note = ""]
    /\ UNCHANGED peopleOthers

PeopleNext ==
    \/ \E rawPerson \in PersonInputs : CheckPerson(rawPerson)
    \/ \E rawPerson \in PersonInputs : AddPerson(rawPerson)
    \/ \E id \in people.peopleLoads, ok \in BOOLEAN : PeopleLoadSettled(id, ok)
    \/ \E c \in people.creates, ok \in BOOLEAN : CreatePersonSettled(c, ok)
    \/ PeopleClockTicks

PeopleSpec == PeopleInit /\ [][PeopleNext]_vars

\* C37: createPerson is never called for a person whose creation is in flight or
\* has succeeded (same LinkedIn entity key, or same normalized name): such an add
\* is answered added: false instead.
CreatePersonOncePerPerson ==
    \A c \in people.creates : c.rivals = 0

\* ------------------------------------------- the popup: identity keys
\* Texts are sequences of characters (Chars).
\* the characters of s from the first that is not a digit on are dropped
leadingDigits(s) ==
    SubSeq(s, 1, CHOOSE n \in 0..Len(s) :
                     /\ \A j \in 1..n : IsDigit(s[j])
                     /\ n = Len(s) \/ ~IsDigit(s[n + 1]))

lowered(s) == [i \in 1..Len(s) |-> LowerChar(s[i])]

\* text.match(/<prefix>(\d{8,})/i): the group of the leftmost match, <<>> if none
matchId(text, prefix) ==
    LET hits == {i \in 1..(Len(text) - Len(prefix) + 1) :
                    /\ lowered(SubSeq(text, i, i + Len(prefix) - 1)) = lowered(prefix)
                    /\ Len(leadingDigits(SubSeq(text, i + Len(prefix), Len(text)))) >= 8}
    IN IF hits = {} THEN <<>>
       ELSE LET i == CHOOSE h \in hits : \A k \in hits : h <= k
            IN leadingDigits(SubSeq(text, i + Len(prefix), Len(text)))

ActivityPatterns ==
    <<Chars("urn:li:activity:"), Chars("activity-"), Chars("ugcPost-"),
      Chars("urn:li:ugcPost:"), Chars("urn:li:share:"), Chars("share-")>>

RECURSIVE firstMatch(_, _)
firstMatch(text, k) ==
    IF k > Len(ActivityPatterns) THEN <<>>
    ELSE IF matchId(text, ActivityPatterns[k]) # <<>> THEN matchId(text, ActivityPatterns[k])
    ELSE firstMatch(text, k + 1)

\* extractActivityId of the popup, for a text
popupExtractActivityId(text) == firstMatch(text, 1)

\* a run of blanks becomes one blank
collapseSpaces(s) ==
    SelectSeq([i \in 1..Len(s) |-> IF IsSpace(s[i]) /\ i > 1 /\ IsSpace(s[i - 1]) THEN "" ELSE s[i]],
              LAMBDA c : c # "")

SnippetLength == 220
StrongFingerprintLength == 80

popupNormalizedSnippet(value) ==
    LET flat == collapseSpaces(lowered(backgroundCleanText(value)))
    IN IF Len(flat) > SnippetLength THEN SubSeq(flat, 1, SnippetLength) ELSE flat

\* a date is "" (none), a text Date cannot read, or an ISO instant of a day
popupNormalizedDay(value) == IF value.kind = "iso" THEN Chars(value.day) ELSE <<>>

\* a post URL is a record of its shape and id (the activity URL, when the id is
\* found; otherwise the URL without search, hash and trailing slashes)
normalizeLinkedInUrl(url) ==
    IF url.shape = "" THEN <<>>
    ELSE IF extractActivityId(url) # ""
    THEN Chars("https://www.linkedin.com/feed/update/urn:li:activity:" \o extractActivityId(url) \o "/")
    ELSE Chars("https://www.linkedin.com" \o url.shape)

FirstNonEmpty(a, b, c) == IF a # <<>> THEN a ELSE IF b # <<>> THEN b ELSE c

ActivityPrefix == Chars("activity:")
UrlPrefix == Chars("url:")
TxtPrefix == Chars("txt:")
TxtNoDayPrefix == Chars("txt:|")
LegacyPrefix == Chars("legacy_")

postIdentityKeys(post) ==
    LET activityId == IF extractActivityId(post.post_url) # ""
                      THEN Chars(extractActivityId(post.post_url))
                      ELSE FirstNonEmpty(popupExtractActivityId(post.title),
                                         popupExtractActivityId(post.content),
                                         popupExtractActivityId(post.text))
        snippet == popupNormalizedSnippet(FirstNonEmpty(post.content, post.text, post.title))
        day == popupNormalizedDay(post.posted_at)
    IN (IF activityId # <<>> THEN {Chars("activity:") \o activityId} ELSE {})
       \cup (IF normalizeLinkedInUrl(post.post_url) # <<>>
             THEN {Chars("url:") \o normalizeLinkedInUrl(post.post_url)} ELSE {})
       \cup (IF snippet # <<>> /\ day # <<>>
             THEN {Chars("txt:") \o day \o Chars("|") \o snippet} ELSE {})
       \cup (IF snippet # <<>> THEN {Chars("txt:|") \o snippet} ELSE {})

PopupPost(url, title, content, text, date) ==
    [post_url |-> url, title |-> Chars(title), content |-> Chars(content), text |-> Chars(text),
     posted_at |-> date]

NoDate == [kind |-> "empty", day |-> ""]
UnreadableDate == [kind |-> "invalid", day |-> ""]
DayOne == [kind |-> "iso", day |-> "2026-01-05"]
DayTwo == [kind |-> "iso", day |-> "2026-01-06"]
NoPostUrl == [shape |-> "", id |-> ""]

ShortText == "We are  Hiring"
LongText ==
    "Five lessons from a year of shipping small: keep the scope honest, write it down, ask early."

\* posts of every kind of key: an activity URL, a URL without id, an id quoted in
\* the text, a text with and without a date, short and long, nothing at all
PopupPosts ==
    {PopupPost([shape |-> "activity-", id |-> "70000001"], "", LongText, "", DayOne),
     PopupPost([shape |-> "/posts/y", id |-> ""], "", ShortText, "", NoDate),
     PopupPost(NoPostUrl, "", "", "see URN:LI:ACTIVITY:70000002 again", NoDate),
     PopupPost(NoPostUrl, "", ShortText, "", DayOne),
     PopupPost(NoPostUrl, "", "we are hiring ", "", DayTwo),
     PopupPost(NoPostUrl, "", ShortText, "", NoDate),
     PopupPost(NoPostUrl, "We are hiring", "", "", UnreadableDate),
     PopupPost(NoPostUrl, "", LongText, "", NoDate),
     PopupPost(NoPostUrl, "", "", "", DayOne)}

PersonAlice == [id |-> 1, full_name |-> Chars("Alice"), linkedin_url |-> UrlAlice]
PersonBob == [id |-> 2, full_name |-> Chars("Bob"), linkedin_url |-> UrlBob]
PersonNoProfile == [id |-> 3, full_name |-> Chars("Carol"), linkedin_url |-> UrlEmpty]

PeopleLists == {<<PersonNoProfile>>, <<PersonAlice, PersonNoProfile, PersonBob>>}

RawA == PopupPost([shape |-> "activity-", id |-> "70000001"], "", "Launch day", "", DayOne)
RawAShared == PopupPost([shape |-> "share-", id |-> "70000001"], "", "Launch day!", "", NoDate)
RawB == PopupPost(NoPostUrl, "", ShortText, "", NoDate)
RawNothing == PopupPost(NoPostUrl, "", "", "", NoDate)

RawLists == {<<>>, <<RawA, RawB>>, <<RawAShared, RawA, RawNothing>>}
StoredLists == {<<>>, <<RawB>>}

\* a post URL once normalized, as the record of the URL it names
candidateUrl(url) ==
    IF url.shape = "" THEN url
    ELSE IF extractActivityId(url) # "" THEN [shape |-> "urn:li:activity:", id |-> extractActivityId(url)]
    ELSE [shape |-> url.shape, id |-> ""]


EmDash == "emdash"
TitleClip == 200
Today == [kind |-> "iso", day |-> "2026-01-07"]

buildTitle(content, fallbackName) ==
    IF content # <<>>
    THEN (IF Len(content) > TitleClip
          THEN backgroundCleanText(SubSeq(content, 1, TitleClip)) \o Chars("...") ELSE content)
    ELSE IF fallbackName # <<>> THEN fallbackName \o <<" ", EmDash, " ">> \o Chars("LinkedIn post")
    ELSE Chars("LinkedIn post")

buildCreatePayload(post) ==
    [person_id |-> post.person_id, title |-> buildTitle(post.content, post.person_name),
     content |-> post.content, post_url |-> post.post_url, text |-> <<>>,
     posted_at |-> IF post.posted_at.kind = "empty" THEN Today ELSE post.posted_at]

\* the candidate record buildCandidateFromLinkedInPost fills in
candidateOf(person, rawPost) ==
    [person_id |-> person.id, person_name |-> person.full_name,
     post_url |-> candidateUrl(rawPost.post_url), posted_at |-> rawPost.posted_at,
     content |-> backgroundCleanText(FirstNonEmpty(rawPost.content, rawPost.text, rawPost.title)),
     title |-> backgroundCleanText(rawPost.title), text |-> <<>>]

\* the posts the runs below meet; their keys and snippets are computed once
RawPosts == {RawA, RawAShared, RawB, RawNothing}
Candidates == {candidateOf(person, rawPost) : person \in {PersonAlice, PersonBob}, rawPost \in RawPosts}
KnownPosts == PopupPosts \cup RawPosts \cup Candidates \cup {buildCreatePayload(c) : c \in Candidates}
IdentityKeys == [post \in KnownPosts |-> postIdentityKeys(post)]
Snippets ==
    [post \in KnownPosts |->
        popupNormalizedSnippet(FirstNonEmpty(post.content, post.text, post.title))]

identityKeys(post) == IdentityKeys[post]
snippetOf(post) == Snippets[post]

hasStableIdentityKey(keys) ==
    \E key \in keys : startsWith(key, ActivityPrefix) \/ startsWith(key, UrlPrefix)

\* the lookups of isDuplicateAgainstKeySet for one key of the post: a stable key
\* as it is; a text key, plain and legacy-marked, if it names a day or the
\* snippet is a strong fingerprint
keyIsKnown(key, strong, keySet) ==
    \/ /\ startsWith(key, ActivityPrefix) \/ startsWith(key, UrlPrefix)
       /\ key \in keySet
    \/ /\ ~(startsWith(key, ActivityPrefix) \/ startsWith(key, UrlPrefix))
       /\ startsWith(key, TxtPrefix)
       /\ strong \/ ~startsWith(key, TxtNoDayPrefix)
       /\ key \in keySet \/ (LegacyPrefix \o key) \in keySet

isDuplicateByKeys(keys, strong, keySet) ==
    \E key \in keys : keyIsKnown(key, strong, keySet)

isDuplicateAgainstKeySet(post, keySet) ==
    isDuplicateByKeys(identityKeys(post), Len(snippetOf(post)) >= StrongFingerprintLength, keySet)

addKeys(set, keys) ==
    set \cup keys
        \cup (IF hasStableIdentityKey(keys) THEN {}
              ELSE {LegacyPrefix \o key : key \in {k \in keys : startsWith(k, TxtPrefix)}})

addIdentityKeysToSet(set, post) == addKeys(set, identityKeys(post))

\* the key sets of the popup: what adding up to two posts leaves
KeySets ==
    {{}} \cup {addIdentityKeysToSet({}, p) : p \in PopupPosts}
         \cup {addIdentityKeysToSet(addIdentityKeysToSet({}, p), q) : p, q \in PopupPosts}

KeysInit ==
    /\ now = 0
    /\ topPostsCache = EmptyMap
    /\ topPostsInflight = EmptyMap
    /\ topPostsJobs = EmptyMap
    /\ runs = EmptyMap
    /\ tabs = EmptyMap
    /\ requests = EmptyMap
    /\ issued = 0
    /\ lastTurn = Quiet
    /\ calls = EmptyMap
    /\ page = NoPage
    /\ assist = NoAssist
    /\ panel = NoPanel
    /\ people = NoPeople
    /\ popup = NoPopup
    /\ \E post \in PopupPosts, set \in KeySets : Given("post", [post |-> post, set |-> set])

\* addIdentityKeysToSet(set, post), then isDuplicateAgainstKeySet(post, set)
CallAddThenCheck ==
    /\ calc.fn = "none" /\ calc.arg = "post"
    /\ calc' = Called("isDuplicateAgainstKeySet",
                      [set |-> addIdentityKeysToSet(calc.input.set, calc.input.post),
                       duplicate |-> isDuplicateAgainstKeySet(
                                         calc.input.post,
                                         addIdentityKeysToSet(calc.input.set, calc.input.post))])
    /\ UNCHANGED <<scrapeVars, calls, page, assist, panel, people, popup>>

\* isDuplicateAgainstKeySet(post, set) with the set as it is
CallCheck ==
    /\ calc.fn = "none" /\ calc.arg = "post"
    /\ calc' = Called("check",
                      [set |-> calc.input.set,
                       duplicate |-> isDuplicateAgainstKeySet(calc.input.post, calc.input.set)])
    /\ UNCHANGED <<scrapeVars, calls, page, assist, panel, people, popup>>

KeysNext == CallAddThenCheck \/ CallCheck

KeysSpec == KeysInit /\ [][KeysNext]_vars

\* C33: a post that yields at least one identity key is a duplicate against any
\* key set it has just been added to, also when it has no stable key, no date and
\* a short text.
AddedPostIsDuplicate ==
    (/\ calc.fn = "isDuplicateAgainstKeySet"
     /\ postIdentityKeys(calc.input.post) # {})
       => calc.output.duplicate

\* ------------------------------------------- the popup: scan and add
MaxPopupRuns == 2

isLinkedInProfileUrl(url) ==
    /\ url.kind = "url"
    /\ \/ url.host \in {<<"linkedin", "com">>, <<"www", "linkedin", "com">>}
       \/ (Len(url.host) >= 3 /\ SubSeq(url.host, Len(url.host) - 1, Len(url.host)) = <<"linkedin", "com">>)
    /\ \E i \in 1..(Len(url.path) - 1) : ToLower(url.path[i]) = "in"

\* the first key of postIdentityKeys in the order the Set received them
firstKey(keys) ==
    IF keys = {} THEN <<>>
    ELSE IF \E key \in keys : startsWith(key, ActivityPrefix)
    THEN CHOOSE key \in keys : startsWith(key, ActivityPrefix)
    ELSE IF \E key \in keys : startsWith(key, UrlPrefix)
    THEN CHOOSE key \in keys : startsWith(key, UrlPrefix)
    ELSE IF \E key \in keys : startsWith(key, TxtPrefix) /\ ~startsWith(key, TxtNoDayPrefix)
    THEN CHOOSE key \in keys : startsWith(key, TxtPrefix) /\ ~startsWith(key, TxtNoDayPrefix)
    ELSE CHOOSE key \in keys : startsWith(key, TxtNoDayPrefix)

postIdentityKeyOfPopup(post) == firstKey(identityKeys(post))

candidateOrNull(person, rawPost, candidate) ==
    IF person.id <= 0 THEN Null
    ELSE IF candidate.content = <<>> /\ rawPost.post_url.shape = "" THEN Null
    ELSE IF postIdentityKeyOfPopup(candidate) = <<>> THEN Null
    ELSE Some(candidate)

\* Null when the post is not a candidate
buildCandidateFromLinkedInPost(person, rawPost) ==
    candidateOrNull(person, rawPost, candidateOf(person, rawPost))

\* the URLs probePostExistsByUrl tries, in order
probeVariants(postUrl) ==
    IF extractActivityId(postUrl) # ""
    THEN <<[shape |-> "urn:li:activity:", id |-> extractActivityId(postUrl)],
           [shape |-> "urn:li:share:", id |-> extractActivityId(postUrl)],
           [shape |-> "urn:li:ugcPost:", id |-> extractActivityId(postUrl)]>>
    ELSE <<candidateUrl(postUrl)>>

KeysOf(map, personId) == IF personId \in DOMAIN map THEN map[personId] ELSE {}

RECURSIVE addAllKeys(_, _)
addAllKeys(set, posts) ==
    IF posts = <<>> THEN set ELSE addAllKeys(addIdentityKeysToSet(set, Head(posts)), Tail(posts))

\* loadExistingPostKeysForPerson once both listPosts calls have answered with the
\* posts of the two batches
existingKeysFor(pp, personId, posts) ==
    addAllKeys({}, posts) \cup KeysOf(pp.localDedupeKeysByPerson, personId)

\* the statuses the backend's answers are distinguished by: request() answers with
\* the payload when response.ok (Created stands for these) and throws an ApiError
\* carrying the status otherwise; the popup tells 401, 409 and 404 apart and treats
\* every other status alike (ServerError stands for these)
Unauthorized == 401
Conflict == 409
NotFound == 404
Created == 201
ServerError == 500
ApiStatuses == {Created, Conflict, NotFound, Unauthorized, ServerError}

putScan(pp, old, new) == [pp EXCEPT !.scans = (@ \ {old}) \cup {new}]
putAdd(pp, old, new) == [pp EXCEPT !.adds = (@ \ {old}) \cup {new}]

\* mutant: a scan aborted by a 401 leaves its flag set
scanFinishedKeepsFlag(pp, run, abortedUnauthorized) ==
    [pp EXCEPT !.scans = @ \ {run},
               !.scanning = abortedUnauthorized,
               !.status = IF abortedUnauthorized THEN "login"
                          ELSE IF pp.pendingPosts = <<>> THEN "no new posts" ELSE "found"]

\* runScan after its loop: the flag is reset and the status says what was found
scanFinished(pp, run, abortedUnauthorized) ==
    [pp EXCEPT !.scans = @ \ {run},
               !.scanning = FALSE,
               !.status = IF abortedUnauthorized THEN "login"
                          ELSE IF pp.pendingPosts = <<>> THEN "no new posts" ELSE "found"]

\* the catch of the loop body
scanCaught(pp, run, status) ==
    IF status = Unauthorized
    THEN scanFinished([pp EXCEPT !.loginShown = TRUE], run, TRUE)
    ELSE putScan([pp EXCEPT !.scanStats.errors = @ + 1], run, [run EXCEPT !.pc = "sleep"])

\* the end of the loop body for one person, up to sleep(180)
scanPersonDone(pp, run) ==
    putScan(IF run.personNewPosts > 0
            THEN [pp EXCEPT !.scanStats.contactsWithNew = @ + 1,
                            !.scanStats.foundPosts = @ + run.personNewPosts]
            ELSE pp,
            run, [run EXCEPT !.pc = "sleep"])

\* the candidate is kept: its keys are seen, it is pushed to pendingPosts
keepCandidate(pp, run, candidate) ==
    [popup |-> [pp EXCEPT !.pendingPosts = Append(@, candidate)],
     run |-> [run EXCEPT !.seen = MapSet(@, candidate.person_id,
                                         addIdentityKeysToSet(KeysOf(run.seen, candidate.person_id),
                                                              candidate)),
                         !.personNewPosts = @ + 1,
                         !.j = @ + 1]]

\* mutant: a post the probe found is kept all the same
afterProbeKeepsFound(pp, run, candidate, exists) == keepCandidate(pp, run, candidate)

\* the candidate once the existence of its URL is known (TRUE, FALSE, or Null)
afterProbe(pp, run, candidate, exists) ==
    IF exists = Some(TRUE) THEN [popup |-> pp, run |-> [run EXCEPT !.j = @ + 1]]
    ELSE keepCandidate(pp, run, candidate)

goOn(next) == [popup |-> next.popup, run |-> next.run, wait |-> FALSE]

\* the candidate with a URL: the cached answer of the probe, or the probe
scanProbed(pp, run, candidate, cacheKey) ==
    IF cacheKey \in DOMAIN run.existsProbeCache
    THEN goOn(afterProbe(pp, run, candidate, run.existsProbeCache[cacheKey]))
    ELSE [popup |-> pp, run |-> [run EXCEPT !.pc = "probe", !.variant = 1], wait |-> TRUE]

scanCandidate(pp, run, built) ==
    IF IsNull(built) THEN [popup |-> pp, run |-> [run EXCEPT !.j = @ + 1], wait |-> FALSE]
    ELSE IF isDuplicateAgainstKeySet(Val(built), KeysOf(run.seen, Val(built).person_id))
    THEN [popup |-> pp, run |-> [run EXCEPT !.j = @ + 1], wait |-> FALSE]
    ELSE IF isDuplicateAgainstKeySet(Val(built), run.existingKeys)
    THEN [popup |-> pp, run |-> [run EXCEPT !.j = @ + 1], wait |-> FALSE]
    ELSE IF Val(built).post_url.shape = "" THEN goOn(keepCandidate(pp, run, Val(built)))
    ELSE scanProbed(pp, run, Val(built), postIdentityKeyOfPopup(Val(built)))

\* the loop body for raw post j, up to the next post or to an await (a probe)
scanPost(pp, run) ==
    scanCandidate(pp, run, buildCandidateFromLinkedInPost(run.people[run.i], run.rawPosts[run.j]))

\* the loop over rawPosts from post j on, up to the next await (a probe) or to the
\* end of the person's posts
RECURSIVE scanPosts(_, _, _)
scanStep(old, step) ==
    IF step.wait THEN putScan(step.popup, old, step.run)
    ELSE scanPosts(step.popup, old, step.run)

scanPosts(pp, old, run) ==
    IF run.j > Len(run.rawPosts) THEN scanPersonDone([pp EXCEPT !.scans = @ \ {old}], run)
    ELSE scanStep(old, scanPost(pp, run))

\* the loop body for person i, up to its first await
scanPerson(pp, old, run) ==
    putScan([pp EXCEPT !.scanStats.checkedContacts = run.i, !.status = "checking"],
            old, [run EXCEPT !.pc = "keys", !.j = 1, !.personNewPosts = 0,
                             !.rawPosts = <<>>, !.existingKeys = {}])

\* mutant: runScan starts whatever the flags say
runScanUnguarded(pp) ==
    LET scannablePeople == SelectSeq(pp.allPeople, LAMBDA person : isLinkedInProfileUrl(person.linkedin_url))
        run == [id |-> pp.started + 1, pc |-> "start", people |-> scannablePeople, i |-> 1, j |-> 1,
                existingKeys |-> {}, rawPosts |-> <<>>, seen |-> EmptyMap,
                existsProbeCache |-> EmptyMap, variant |-> 0, personNewPosts |-> 0]
        begun == [pp EXCEPT !.scanStats = [ZeroStats EXCEPT
                                              !.totalContacts = Len(pp.allPeople),
                                              !.scannableContacts = Len(scannablePeople),
                                              !.skippedNoLinkedIn = Len(pp.allPeople) - Len(scannablePeople)],
                            !.pendingPosts = <<>>,
                            !.conflicts = {},
                            !.lastAdd = NoPopup.lastAdd,
                            !.scanning = TRUE,
                            !.hasScanned = TRUE,
                            !.started = @ + 1]
    IN IF pp.allPeople = <<>> THEN [pp EXCEPT !.status = "load contacts first"]
       ELSE IF scannablePeople = <<>>
       THEN [begun EXCEPT !.scanning = FALSE, !.status = "no valid LinkedIn URL"]
       ELSE scanPerson([begun EXCEPT !.scans = @ \cup {run}], run, run)

\* runScan up to its first await
runScan(pp) ==
    IF pp.scanning \/ pp.adding THEN pp ELSE runScanUnguarded(pp)

\* loadExistingPostKeysForPerson has answered, the message to the background is sent
scanKeysLoaded(pp, run, posts) ==
    putScan(pp, run, [run EXCEPT !.pc = "posts",
                                 !.existingKeys = existingKeysFor(pp, run.people[run.i].id, posts)])

\* the background has answered MYVOICE_GET_PROFILE_TOP_POSTS
scanPostsReceived(pp, run, response) ==
    IF ~response.ok THEN scanCaught(pp, run, 0)
    ELSE scanPosts(pp, run, [run EXCEPT !.rawPosts = response.new_posts, !.j = 1])

probeKnown(pp, run, candidate, cacheKey, exists, status) ==
    scanStep(run, goOn(afterProbe(
        [pp EXCEPT !.conflicts = IF status = Conflict THEN @ \cup {cacheKey} ELSE @],
        [run EXCEPT !.existsProbeCache = MapSet(@, cacheKey, exists), !.variant = 0],
        candidate, exists)))

probeAnswered(pp, run, status, candidate) ==
    IF status \in {Created, Conflict}
    THEN probeKnown(pp, run, candidate, postIdentityKeyOfPopup(candidate), Some(TRUE), status)
    ELSE IF status = NotFound /\ run.variant < Len(probeVariants(candidate.post_url))
    THEN putScan(pp, run, [run EXCEPT !.variant = @ + 1])
    ELSE IF status = NotFound
    THEN probeKnown(pp, run, candidate, postIdentityKeyOfPopup(candidate), Some(FALSE), status)
    ELSE IF status = Unauthorized THEN scanCaught(pp, run, Unauthorized)
    ELSE probeKnown(pp, run, candidate, postIdentityKeyOfPopup(candidate), Null, status)

\* createPost of the probe has answered for the variant in turn
scanProbeAnswered(pp, run, status) ==
    probeAnswered(pp, run, status,
                  Val(buildCandidateFromLinkedInPost(run.people[run.i], run.rawPosts[run.j])))

\* sleep(180) is over: the next person, or the end of the scan
scanSleepDone(pp, run) ==
    IF run.i < Len(run.people) THEN scanPerson(pp, run, [run EXCEPT !.i = @ + 1])
    ELSE scanFinished(pp, run, FALSE)

\* the filter loop for one post: what it does to the keys seen and to the result
filterSeen(post, seenKeysByPerson, existingKeysByPerson) ==
    IF \/ isDuplicateAgainstKeySet(post, KeysOf(seenKeysByPerson, post.person_id))
       \/ /\ post.person_id \in DOMAIN existingKeysByPerson
          /\ isDuplicateAgainstKeySet(post, existingKeysByPerson[post.person_id])
    THEN seenKeysByPerson
    ELSE MapSet(seenKeysByPerson, post.person_id,
                addIdentityKeysToSet(KeysOf(seenKeysByPerson, post.person_id), post))

filterPost(post, seenKeysByPerson, existingKeysByPerson, acc) ==
    IF isDuplicateAgainstKeySet(post, KeysOf(seenKeysByPerson, post.person_id))
    THEN [acc EXCEPT !.batch = @ + 1]
    ELSE IF /\ post.person_id \in DOMAIN existingKeysByPerson
            /\ isDuplicateAgainstKeySet(post, existingKeysByPerson[post.person_id])
    THEN [acc EXCEPT !.existing = @ + 1]
    ELSE [acc EXCEPT !.filtered = Append(@, post)]

\* the posts of pendingPosts from post k on that are no duplicates, the keys seen
\* so far given per person
RECURSIVE filterPending(_, _, _, _, _)
filterPending(posts, k, seenKeysByPerson, existingKeysByPerson, acc) ==
    IF k > Len(posts) THEN acc
    ELSE filterPending(posts, k + 1,
                       filterSeen(posts[k], seenKeysByPerson, existingKeysByPerson),
                       existingKeysByPerson,
                       filterPost(posts[k], seenKeysByPerson, existingKeysByPerson, acc))

\* the ids of the persons of posts, each once, in order
uniquePersonIdsOf(posts) ==
    LET firsts == {n \in 1..Len(posts) :
                      \A m \in 1..(n - 1) : posts[m].person_id # posts[n].person_id}
    IN [k \in 1..Cardinality(firsts) |->
           posts[CHOOSE n \in firsts : Cardinality({m \in firsts : m <= n}) = k].person_id]

\* an exit of addAllPendingPosts: the flag is reset
addFinished(pp, run, exit, status) ==
    [pp EXCEPT !.adds = @ \ {run},
               !.adding = FALSE,
               !.status = status,
               !.lastAdd = [exit |-> exit, before |-> run.before, creations |-> run.creations,
                            added |-> run.added, skippedDuplicates |-> run.skippedDuplicates,
                            preSkipped |-> run.preSkipped]]

\* mutant: the failed duplicate check leaves the flag set
addCheckFailedKeepsFlag(pp, run, status) ==
    [addFinished(pp, run, "check failed", "check failed") EXCEPT !.adding = TRUE]

\* the catch of the duplicate check before adding
addCheckFailed(pp, run, status) ==
    IF status = Unauthorized
    THEN addFinished([pp EXCEPT !.loginShown = TRUE], run, "check failed", "login")
    ELSE addFinished(pp, run, "check failed", "check failed")

addKept(pp, run, kept) ==
    IF kept.filtered = <<>>
    THEN addFinished([pp EXCEPT !.pendingPosts = <<>>],
                     [run EXCEPT !.preSkipped = kept.batch + kept.existing], "all filtered",
                     IF kept.batch + kept.existing > 0 THEN "all were present" ELSE "nothing to add")
    ELSE putAdd([pp EXCEPT !.pendingPosts = kept.filtered], run,
                [run EXCEPT !.pc = "create", !.i = 1, !.preSkipped = kept.batch + kept.existing])

\* the duplicate check is complete: pendingPosts is filtered, and the first
\* createPost is sent unless nothing is left
addFiltered(pp, run) ==
    addKept(pp, run, filterPending(pp.pendingPosts, 1, EmptyMap, run.existingKeysByPerson,
                                   [filtered |-> <<>>, batch |-> 0, existing |-> 0]))

\* mutant: addAllPendingPosts starts whatever the flags say
addAllPendingPostsUnguarded(pp) ==
    LET run == [id |-> pp.started + 1, pc |-> "check", i |-> 1,
                uniquePersonIds |-> uniquePersonIdsOf(pp.pendingPosts),
                before |-> pp.pendingPosts,
                existingKeysByPerson |-> EmptyMap, preSkipped |-> 0, added |-> 0,
                skippedDuplicates |-> 0, failed |-> <<>>, creations |-> <<>>]
        begun == [pp EXCEPT !.adding = TRUE, !.loginShown = FALSE, !.started = @ + 1,
                            !.lastAdd = NoPopup.lastAdd,
                            !.adds = @ \cup {run}, !.status = "checking duplicates"]
    IN IF pp.pendingPosts = <<>> THEN pp
       ELSE IF run.uniquePersonIds = <<>> THEN addFiltered(begun, run)
       ELSE begun

\* addAllPendingPosts up to its first await
addAllPendingPosts(pp) ==
    IF pp.adding \/ pp.scanning THEN pp ELSE addAllPendingPostsUnguarded(pp)

addChecked(pp, run, next) ==
    IF run.i < Len(run.uniquePersonIds) THEN putAdd(pp, run, next)
    ELSE addFiltered(putAdd(pp, run, next), next)

\* loadExistingPostKeysForPerson has answered for the person in turn
addKeysLoaded(pp, run, posts) ==
    addChecked(pp, run,
               [run EXCEPT !.existingKeysByPerson =
                               MapSet(@, run.uniquePersonIds[run.i],
                                      existingKeysFor(pp, run.uniquePersonIds[run.i], posts)),
                           !.i = @ + 1])

\* the keys of the payload are remembered for the person, in the keys loaded for
\* this run and in the local ones
rememberKeys(pp, run, payload) ==
    [popup |-> [pp EXCEPT !.localDedupeKeysByPerson =
                              MapSet(@, payload.person_id,
                                     addIdentityKeysToSet(KeysOf(pp.localDedupeKeysByPerson,
                                                                 payload.person_id), payload))],
     run |-> IF payload.person_id \in DOMAIN run.existingKeysByPerson
             THEN [run EXCEPT !.existingKeysByPerson[payload.person_id] =
                                  addIdentityKeysToSet(@, payload)]
             ELSE run]

createNext(pp, run, result) ==
    putAdd(result.popup, run,
           [result.run EXCEPT !.i = @ + 1,
                              !.pc = IF run.i < Len(pp.pendingPosts) THEN "create" ELSE "persist"])

createFailed(pp, noted, post, status) ==
    [popup |-> IF status = Unauthorized THEN [pp EXCEPT !.loginShown = TRUE] ELSE pp,
     run |-> [noted EXCEPT !.failed = Append(@, post)]]

createCounted(kept, status) ==
    [popup |-> kept.popup,
     run |-> IF status = Created THEN [kept.run EXCEPT !.added = @ + 1]
             ELSE [kept.run EXCEPT !.skippedDuplicates = @ + 1]]

\* mutant: a 409 is a failure like any other
createResultConflictFails(pp, noted, post, status) ==
    IF status = Created
    THEN createCounted(rememberKeys(pp, noted, buildCreatePayload(post)), status)
    ELSE createFailed(pp, noted, post, status)

\* the try and the catch around createPost
createResult(pp, noted, post, status) ==
    IF status \in {Created, Conflict}
    THEN createCounted(rememberKeys(pp, noted, buildCreatePayload(post)), status)
    ELSE createFailed(pp, noted, post, status)

\* createPost has answered for post i
createAnswered(pp, run, status) ==
    createNext(pp, run,
               createResult(pp, [run EXCEPT !.creations =
                                     Append(@, [post |-> pp.pendingPosts[run.i], status |-> status])],
                            pp.pendingPosts[run.i], status))

\* persistLocalDedupeKeys is over, whether the storage took the keys or not
addPersisted(pp, run) ==
    addFinished([pp EXCEPT !.pendingPosts = run.failed], run, "done",
                IF run.failed = <<>> THEN "done" ELSE "partly done")

popupOthers == <<scrapeVars, calls, page, calc, assist, panel, people>>

PopupInit ==
    /\ Init
    /\ popup = NoPopup

\* listPeople of loadPeople answers, or fails
LoadPeopleSettled(list) ==
    /\ popup' = [popup EXCEPT
          !.allPeople = list,
          !.scanStats = IF list = <<>> THEN ZeroStats
                        ELSE [@ EXCEPT
                                !.totalContacts = Len(list),
                                !.scannableContacts =
                                    Len(SelectSeq(list, LAMBDA person : isLinkedInProfileUrl(person.linkedin_url))),
                                !.skippedNoLinkedIn =
                                    Len(list) - Len(SelectSeq(list, LAMBDA person :
                                                                isLinkedInProfileUrl(person.linkedin_url)))],
          !.status = IF list = <<>> THEN "contacts failed" ELSE "contacts loaded",
          !.note = "people"]
    /\ UNCHANGED popupOthers

\* the scan button is clicked
ScanClick ==
    /\ runScan(popup).started <= MaxPopupRuns
    /\ popup' = [runScan(popup) EXCEPT !.note = "scan"]
    /\ UNCHANGED popupOthers

\* the add button is clicked
AddClick ==
    /\ addAllPendingPosts(popup).started <= MaxPopupRuns
    /\ popup' = [addAllPendingPosts(popup) EXCEPT !.note = "add"]
    /\ UNCHANGED popupOthers

\* listPosts answers (posts) or fails (status) for the scan's person
ScanKeysSettled(run, ok, posts, status) ==
    /\ run \in popup.scans /\ run.pc = "keys"
    /\ popup' = [(IF ok THEN scanKeysLoaded(popup, run, posts) ELSE scanCaught(popup, run, status))
                    EXCEPT !.note = "keys"]
    /\ UNCHANGED popupOthers

ScanPostsSettled(run, ok, rawPosts) ==
    /\ run \in popup.scans /\ run.pc = "posts"
    /\ popup' = [scanPostsReceived(popup, run, [ok |-> ok, new_posts |-> rawPosts])
                    EXCEPT !.note = "posts"]
    /\ UNCHANGED popupOthers

ScanProbeSettled(run, status) ==
    /\ run \in popup.scans /\ run.pc = "probe"
    /\ popup' = [scanProbeAnswered(popup, run, status) EXCEPT !.note = "probe"]
    /\ UNCHANGED popupOthers

ScanSleepDone(run) ==
    /\ run \in popup.scans /\ run.pc = "sleep"
    /\ popup' = [scanSleepDone(popup, run) EXCEPT !.note = "slept"]
    /\ UNCHANGED popupOthers

\* listPosts answers (posts) or fails (status) for the add's person in turn
AddKeysSettled(run, ok, posts, status) ==
    /\ run \in popup.adds /\ run.pc = "check"
    /\ popup' = [(IF ok THEN addKeysLoaded(popup, run, posts) ELSE addCheckFailed(popup, run, status))
                    EXCEPT !.note = "checked"]
    /\ UNCHANGED popupOthers

CreatePostSettled(run, status) ==
    /\ run \in popup.adds /\ run.pc = "create"
    /\ popup' = [createAnswered(popup, run, status) EXCEPT !.note = "create"]
    /\ UNCHANGED popupOthers

PersistSettled(run) ==
    /\ run \in popup.adds /\ run.pc = "persist"
    /\ popup' = [addPersisted(popup, run) EXCEPT !.note = "persisted"]
    /\ UNCHANGED popupOthers

Failures == {Unauthorized, ServerError}

PopupNext ==
    \/ \E list \in PeopleLists \cup {<<>>} : LoadPeopleSettled(list)
    \/ ScanClick
    \/ AddClick
    \/ \E run \in popup.scans : \/ \E posts \in StoredLists : ScanKeysSettled(run, TRUE, posts, 0)
                                \/ \E status \in Failures : ScanKeysSettled(run, FALSE, <<>>, status)
    \/ \E run \in popup.scans : \/ \E rawPosts \in RawLists : ScanPostsSettled(run, TRUE, rawPosts)
                                \/ ScanPostsSettled(run, FALSE, <<>>)
    \/ \E run \in popup.scans, status \in ApiStatuses : ScanProbeSettled(run, status)
    \/ \E run \in popup.scans : ScanSleepDone(run)
    \/ \E run \in popup.adds : \/ \E posts \in StoredLists : AddKeysSettled(run, TRUE, posts, 0)
                               \/ \E status \in Failures : AddKeysSettled(run, FALSE, <<>>, status)
    \/ \E run \in popup.adds, status \in ApiStatuses \ {NotFound} : CreatePostSettled(run, status)
    \/ \E run \in popup.adds : PersistSettled(run)

PopupSpec == PopupInit /\ [][PopupNext]_vars

\* the posts of the creations that failed with another status than 409
RECURSIVE failedCreations(_)
failedCreations(creations) ==
    IF creations = <<>> THEN <<>>
    ELSE (IF Head(creations).status \in {Created, Conflict} THEN <<>> ELSE <<Head(creations).post>>)
         \o failedCreations(Tail(creations))

Answered(creations, status) == Cardinality({n \in 1..Len(creations) : creations[n].status = status})

\* C31 as stated: no post whose existence probe was answered 409 during the scan
\* is pending, and whenever a run of addAllPendingPosts has ended, however it
\* ended, the 409 answers to createPost are counted as already present and
\* pendingPosts holds exactly the posts whose creation failed with another status
\* than 409.
PendingIsFailedAfterAnyAdd ==
    /\ \A n \in 1..Len(popup.pendingPosts) :
          postIdentityKeyOfPopup(popup.pendingPosts[n]) \notin popup.conflicts
    /\ popup.lastAdd.exit # "none"
          => /\ popup.pendingPosts = failedCreations(popup.lastAdd.creations)
             /\ popup.lastAdd.skippedDuplicates = Answered(popup.lastAdd.creations, Conflict)

\* C31, amended: a 409 is a skip and no failure. No post whose existence probe was
\* answered 409 during the scan is pending; when a run of addAllPendingPosts has
\* gone through its creation loop, pendingPosts holds exactly the posts whose
\* creation failed with another status than 409, and the 409 answers are counted
\* as already present; a run that ends at the failed duplicate check before adding
\* has created nothing and leaves pendingPosts as it was.
ConflictIsSkipNotFailure ==
    /\ \A n \in 1..Len(popup.pendingPosts) :
          postIdentityKeyOfPopup(popup.pendingPosts[n]) \notin popup.conflicts
    /\ popup.lastAdd.exit \in {"done", "all filtered"}
          => /\ popup.pendingPosts = failedCreations(popup.lastAdd.creations)
             /\ popup.lastAdd.skippedDuplicates = Answered(popup.lastAdd.creations, Conflict)
             /\ popup.lastAdd.added = Answered(popup.lastAdd.creations, Created)
    /\ popup.lastAdd.exit = "check failed"
          => /\ popup.lastAdd.creations = <<>>
             /\ popup.pendingPosts = popup.lastAdd.before

\* C31 witness: a scan skipped a candidate on a 409 probe, and the add that
\* followed met a 409 and a server error: only the post of the error is pending
ConflictSkippedFailureKept ==
    /\ popup.conflicts # {}
    /\ popup.lastAdd.exit = "done"
    /\ Answered(popup.lastAdd.creations, Conflict) = 1
    /\ Answered(popup.lastAdd.creations, ServerError) = 1
    /\ Len(popup.pendingPosts) = 1
    /\ popup.lastAdd.skippedDuplicates = 1

\* C39: scanning and adding are never both true, at most one run of runScan and at
\* most one run of addAllPendingPosts is active, and each flag is true exactly
\* while a run of its kind is active: every exit resets it.
FlagsFollowRuns ==
    /\ ~(popup.scanning /\ popup.adding)
    /\ Cardinality(popup.scans) <= 1
    /\ Cardinality(popup.adds) <= 1
    /\ popup.scanning <=> popup.scans # {}
    /\ popup.adding <=> popup.adds # {}

\* C39 witness: an add has ended at the failed duplicate check, after a scan that
\* found posts; both flags are down and the buttons work again
AddEndedAtFailedCheck ==
    /\ popup.lastAdd.exit = "check failed"
    /\ popup.hasScanned
    /\ popup.pendingPosts # <<>>
    /\ ~popup.scanning /\ ~popup.adding
    /\ popup.scans = {} /\ popup.adds = {}

====
